---- MODULE Spec2Model ----
(***************************************************************************)
(* MARILib_obj: the equilibrium-solving layer.                             *)
(*                                                                         *)
(*   - network/pico_design/design_model.py : Aircraft (mass / mission       *)
(*     adaptation, payload-range envelope, operation, atmosphere)           *)
(*   - aircraft/airframe/power_and_system.py : Semi_empiric_ef_nacelle      *)
(*   - engine/interface.py : Exergetic_tf_nacelle                           *)
(*   - engine/Turbofan.py : the cruise loop of the turbofan script          *)
(*   - network/pico_design/design_model.py : Fleet                          *)
(*                                                                         *)
(* Floating point quantities are fixed-point integers:                      *)
(*   masses in kg, distances in km, speeds in cm/s, temperatures in mK,     *)
(*   logarithms in 1e-6, kr in percent, Mach and L/D in 1/100.              *)
(* Every product is arranged to stay inside 32 bits.                        *)
(***************************************************************************)
EXTENDS Integers, Sequences, FiniteSets, TLC

VARIABLES scenario, ac, nac, pc, nfev, loc, ret, sweep, thr, fleet

vars == <<scenario, ac, nac, pc, nfev, loc, ret, sweep, thr, fleet>>

(***************************************************************************)
(* Bounds of the model                                                     *)
(***************************************************************************)
\* Residual evaluations one fsolve call makes after the one at x0
MaxIter == 2
\* Half-width (kg) of the interval of take-off weights around the balance
\* point from which fsolve may return its estimate
RootSpread == 1

(***************************************************************************)
(* Values that are not numbers                                             *)
(***************************************************************************)
\* Python None: the value of every sizing field before design_aircraft
None == -999999999
\* numpy nan / inf: np.log of a non-positive ratio, division by zero
NaN == 999999999
Inf == 999999998
NegInf == 999999996
\* the Python ZeroDivisionError of x/0 on Python floats, as a result
ZeroDiv == 999999997

NonFinite == {NaN, Inf, NegInf}

IsNum(x) == x \notin NonFinite /\ x # None

\* numpy subtraction: nan and inf absorb
Sub(a, b) == IF a \in NonFinite \/ b \in NonFinite THEN NaN ELSE a - b

Abs(x) == IF x < 0 THEN -x ELSE x

Max(a, b) == IF a >= b THEN a ELSE b

Min(a, b) == IF a <= b THEN a ELSE b

(***************************************************************************)
(* Fixed-point arithmetic (scale 1e6).  The operators evaluate their        *)
(* arguments once: each is a function applied to the argument values.       *)
(***************************************************************************)
FxScale == 10^6

\* a*b/1e6 for 0 <= a, b
FxMul(a, b) ==
  LET F[x \in Int, y \in Int] ==
        ((x \div 1000) * y) \div 1000 + ((x % 1000) * y) \div FxScale
  IN  F[a, b]

\* n*1e6/d for 0 <= n < d
FxFrac(n, d) ==
  LET F[x \in Int, y \in Int] ==
        ((x * 1000) \div y) * 1000 + (((x * 1000) % y) * 1000) \div y
  IN  F[n, d]

\* 2*atanh(z)*1e6 for z in 1e-6, by its series in Horner form
Atanh2(z) ==
  LET F[x \in Int, x2 \in Int] ==
        2 * (x + FxMul(FxMul(x, x2),
                       FxScale \div 3 + FxMul(x2,
                       FxScale \div 5 + FxMul(x2,
                       FxScale \div 7 + FxMul(x2,
                       FxScale \div 9 + FxMul(x2, FxScale \div 11))))))
  IN  F[z, FxMul(z, z)]

\* ln(2)*1e6
Ln2 == 693147

\* np.log(n/d)*1e6 for 0 < n, 0 < d : halvings, then 2*atanh((n-d)/(n+d))
Ln(n, d) ==
  LET Ge1[x \in Int, y \in Int] ==
        IF 2 * y <= x THEN Ln2 + Ge1[x, 2 * y] ELSE Atanh2(FxFrac(x - y, x + y))
      F[x \in Int, y \in Int] == IF x >= y THEN Ge1[x, y] ELSE -Ge1[y, x]
  IN  F[n, d]

\* floor(np.sqrt(n)) for 0 <= n < 2^31
Sqrt(n) ==
  LET F[x \in Int, lo \in Int, hi \in Int] ==
        IF lo >= hi THEN lo
        ELSE IF ((lo + hi + 1) \div 2) * ((lo + hi + 1) \div 2) <= x
             THEN F[x, (lo + hi + 1) \div 2, hi]
             ELSE F[x, lo, (lo + hi + 1) \div 2 - 1]
  IN  F[n, 0, 46340]

(***************************************************************************)
(* Exceptions                                                              *)
(***************************************************************************)
\* a Python exception object: its class and its args
Raise(class, args) == [class |-> class, args |-> args]

NoError == Raise("", <<>>)

\* design_model.py 134, 170 and power_and_system.py 458, 479, 527
ConvergenceProblem == Raise("Exception", <<"Convergence problem">>)

\* design_model.py 216
AltitudeError == Raise("Exception", <<"atmosphere, altitude cannot exceed 50km">>)

(***************************************************************************)
(* class Aircraft                                                          *)
(***************************************************************************)
\* unit.m_ft(35000.) in m
cruise_altp == 10668
\* Weight per passenger (kg)
mpax == 130
\* fraction of mission fuel for reserve (percent)
kr == 5
\* unit.convert_from("kg/daN/h", 0.54) = 0.54/36000 kg/N/s, in 1e-7
sfc == 150
\* "Structural model": owe = (coef[0]*mtow + coef[1])*mtow + coef[2],
\* coef[0] in 1e-10, coef[1] in 1e-4, coef[2] in kg
owe_coef == <<-1478, 5459, 840>>

\* atmosphere constants: g in mm/s2, r in 1e-3 J/kg/K, gam in 1/10
g == 9807
r == 287053
gam == 14
\* altitude bands (m), lapse rates (1e-4 K/m), sea level temperature (mK)
Z == <<0, 11000, 20000, 32000, 47000, 50000>>
dtodz == <<-65, 0, 10, 28, 0>>
T0 == 288150

\* F(e) with e evaluated once
Eval(F(_), e) == CHOOSE y \in {F(v) : v \in {e}} : TRUE

\* l_o_d(npax), in 1/100
l_o_d(npax) ==
  LET pax1 == 60
      lod1 == 1500
      pax2 == 160
      lod2 == 2000
      lod  == lod1 + ((lod2 - lod1) * (npax - pax1)) \div (pax2 - pax1)
  IN  Max(lod1, Min(lod, lod2))

\* structure(mtow) with coef = None
structure(a, mtow) ==
  LET F[m \in Int] ==
          (a.owe_coef[2] * m) \div 10^4
        + (((a.owe_coef[1] * m) \div 10^5) * m) \div 10^5
        + a.owe_coef[3]
  IN  F[mtow]

\* the while loop of atmosphere: j and T[j], or an IndexError when Z[1+j]
\* is read past the end of Z (Python index 1+j is Z[2+j] here)
AtmLayer(altp) ==
  LET F[j \in Int, Tj \in Int] ==
        IF 2 + j > Len(Z) THEN [j |-> j, T |-> Tj, err |-> Raise("IndexError", <<>>)]
        ELSE IF Z[2 + j] <= altp
             THEN F[j + 1, Tj + (dtodz[j + 1] * (Z[j + 2] - Z[j + 1])) \div 10]
             ELSE [j |-> j, T |-> Tj, err |-> NoError]
  IN  F[0, T0]

\* vsnd = np.sqrt(gam*r*tamb) in cm/s, tamb in mK
sound_speed(tamb) ==
  LET F[t \in Int] ==
        Sqrt((((gam * r) \div 10) * (t \div 1000)
              + (((gam * r) \div 10) * (t % 1000)) \div 1000) * 10)
  IN  F[tamb]

\* atmosphere, lines 227-233, in the layer the loop stopped in
atmosphere_in_layer(lay, altp, disa) ==
  IF lay.err # NoError
  THEN [err |-> lay.err, j |-> lay.j, tamb |-> 0, vsnd |-> 0, g |-> g]
  ELSE LET tamb == lay.T + (dtodz[lay.j + 1] * (altp - Z[lay.j + 1])) \div 10 + disa
       IN  [err |-> NoError, j |-> lay.j, tamb |-> tamb, vsnd |-> sound_speed(tamb), g |-> g]

\* atmosphere(altp, disa): tamb (mK), vsnd (cm/s), g, the layer j; pamb is
\* not carried. err is the exception raised, NoError when it returns.
atmosphere(altp, disa) ==
  IF Z[Len(Z)] < altp
  THEN [err |-> AltitudeError, j |-> 0, tamb |-> 0, vsnd |-> 0, g |-> g]
  ELSE Eval(LAMBDA lay : atmosphere_in_layer(lay, altp, disa), AtmLayer(altp))

\* range_factor*np.log(x) in km, x given by its logarithm L (1e-6)
RangeOf(range_factor, L) ==
  LET F[rf \in Int, m \in Int] ==
        (rf * (m \div 1000)) \div 1000 + (rf * (m % 1000)) \div FxScale
      S[rf \in Int, l \in Int] == IF l < 0 THEN -F[rf, -l] ELSE F[rf, l]
  IN  S[range_factor, L]

\* range_factor = (self.cruise_mach*vsnd*self.eff_ratio)/g, in km
range_factor(a) ==
  Eval(LAMBDA atm : ((((a.cruise_mach * atm.vsnd) \div 100) * (a.eff_ratio \div 1000)) * 10) \div atm.g,
       atmosphere(a.cruise_altp, 0))

\* mission(tow, fuel_mission) with effr = None: the Breguet equation.
\* np: the operands are numpy floats (x/0 is inf or nan) and not Python
\* floats (x/0 raises ZeroDivisionError).
mission(a, tow, fuel_mission, np) ==
  LET F[t \in Int, f \in Int] ==
        IF t - f = 0 THEN (IF ~np THEN ZeroDiv ELSE IF t > 0 THEN Inf ELSE NaN)
        ELSE IF t = 0 THEN NegInf
        ELSE IF (t > 0) # (t - f > 0) THEN NaN
        ELSE RangeOf(range_factor(a), Ln(Abs(t), Abs(t - f)))
  IN  F[tow, fuel_mission]

\* the Aircraft object at line 56 of __init__, before design_aircraft()
NewAircraft(npax, range) ==
  [cruise_altp |-> cruise_altp, cruise_mach |-> 78, cruise_speed |-> None,
   range |-> range, npax |-> npax, mpax |-> mpax,
   payload |-> None, mtow |-> None, owe |-> None, ldw |-> None,
   fuel_mission |-> None, fuel_reserve |-> None, kr |-> kr,
   payload_max |-> None, range_pl_max |-> None,
   payload_fuel_max |-> None, range_fuel_max |-> None, range_no_pl |-> None,
   lod |-> l_o_d(npax), sfc |-> sfc,
   eff_ratio |-> (l_o_d(npax) * 10^5) \div sfc,
   owe_coef |-> owe_coef]

\* eval_design(X): the fields it writes and the residual pair it returns
eval_design(a, X) ==
  LET F[mtow \in Int, fuel_mission \in Int] ==
        LET owe_eff      == structure(a, mtow)
            range_eff    == mission(a, mtow, fuel_mission, TRUE)
            fuel_reserve == (a.kr * fuel_mission) \div 100
            ldw          == mtow - fuel_mission
            payload      == a.npax * a.mpax
            owe          == mtow - payload - fuel_mission - fuel_reserve
        IN  [ac  |-> [a EXCEPT !.mtow = mtow, !.fuel_mission = fuel_mission,
                               !.fuel_reserve = fuel_reserve, !.ldw = ldw,
                               !.payload = payload, !.owe = owe],
             res |-> <<owe - owe_eff, Sub(a.range, range_eff)>>]
  IN  F[X[1], X[2]]

(***************************************************************************)
(* scipy.optimize.fsolve(func, x0, full_output=True) -> (x, infodict, ier, *)
(* mesg).  ier = 1 only for an x that makes both residuals vanish, here to *)
(* the resolution of the fixed-point arithmetic; any other ier comes with  *)
(* the last estimate.                                                      *)
(***************************************************************************)
\* resolution of a residual (kg, km)
Tol == 1

Converged(res) ==
  /\ IsNum(res[1]) /\ IsNum(res[2])
  /\ Abs(res[1]) <= Tol /\ Abs(res[2]) <= Tol

\* the status flags fsolve reports when it did not converge
IerFailed == {2, 3, 4, 5}

\* the box of take-off weights and fuels (kg) the search runs in
MaxMtow == 2^18
MaxFuel == 2^17

\* least mtow of the box that closes the structural equation for this fuel
MtowBisect(a, fuel) ==
  LET F[f \in Int, lo \in Int, hi \in Int] ==
        IF lo >= hi THEN lo
        ELSE IF eval_design(a, <<(lo + hi) \div 2, f>>).res[1] >= 0
             THEN F[f, lo, (lo + hi) \div 2]
             ELSE F[f, (lo + hi) \div 2 + 1, hi]
  IN  F[fuel, 0, MaxMtow]

\* least fuel of the box that reaches the range on the structural balance
FuelBisect(a) ==
  LET Reached(res) == IsNum(res) /\ res <= 0
      F[lo \in Int, hi \in Int] ==
        IF lo >= hi THEN lo
        ELSE IF Eval(Reached, eval_design(a, <<MtowBisect(a, (lo + hi) \div 2),
                                               (lo + hi) \div 2>>).res[2])
             THEN F[lo, (lo + hi) \div 2]
             ELSE F[(lo + hi) \div 2 + 1, hi]
  IN  F[0, MaxFuel]

\* the balance point of eval_design in the box
BalancePoint(a) ==
  Eval(LAMBDA fuel : <<MtowBisect(a, fuel), fuel>>, FuelBisect(a))

\* the aircraft and the design_aircraft arguments of the model
NPaxChoices == {100, 150}
RangeChoices == {1000, 5556}
KrChoices == {None, 10}
MpaxChoices == {None, 100}

\* the balance point of every sizing problem of the model, computed once
RootTable ==
  {<<c, Eval(BalancePoint, [NewAircraft(c[1], c[2]) EXCEPT !.kr = c[3], !.mpax = c[4]])>> :
     c \in NPaxChoices \X RangeChoices \X ({kr} \cup (KrChoices \ {None}))
            \X ({mpax} \cup (MpaxChoices \ {None}))}

DesignRoot(a) ==
  (CHOOSE e \in RootTable : e[1] = <<a.npax, a.range, a.kr, a.mpax>>)[2]

\* Xini = self.npax*self.mpax*np.array([4., 1.])
Xini(a) == <<4 * a.npax * a.mpax, a.npax * a.mpax>>

\* estimates fsolve may return with ier = 1: around the balance point
DesignRoots(a) ==
  Eval(LAMBDA x : {<<x[1] + dm, x[2]>> : dm \in -RootSpread..RootSpread}, DesignRoot(a))

\* points fsolve evaluates eval_design at: near x0, outside the feasible
\* region (fuel >= mtow) and around the balance point
DesignIterates(a) ==
  {<<4 * a.npax * a.mpax + 1, a.npax * a.mpax>>,
   <<a.npax * a.mpax, 4 * a.npax * a.mpax>>} \cup DesignRoots(a)

\* the method without its last evaluation at the root: the fields keep what
\* the last residual evaluation of fsolve wrote
keep_last_iterate(a, x) == a

\* the last evaluation with take-off weight and fuel exchanged
eval_exchanged(a, x) == eval_design(a, <<x[2], x[1]>>).ac

\* the payload of the maximum-fuel corner above the design payload, and
\* below zero
payload_fuel_max_150(a) == (a.payload * 150) \div 100
payload_fuel_max_negative(a) == (a.payload * (-40)) \div 100

\* design_aircraft, lines 160-166: the arguments (coef and effr are None)
design_args(a, kr_arg, mpax_arg) ==
  [a EXCEPT !.kr = IF kr_arg # None THEN kr_arg ELSE @,
            !.mpax = IF mpax_arg # None THEN mpax_arg ELSE @,
            !.eff_ratio = (l_o_d(a.npax) * 10^5) \div a.sfc]

\* design_aircraft, line 172: the state is evaluated at the returned root
design_final_eval(a, x) == eval_design(a, x).ac

\* self.payload * 1.20 and self.payload * 0.40
design_payload_max(a) == (a.payload * 120) \div 100
design_payload_fuel_max(a) == (a.payload * 40) \div 100

\* design_aircraft, lines 174-186, on the state a1 of the final eval_design
envelope(a1, x) ==
  LET atm  == atmosphere(a1.cruise_altp, 0)
      cruise_speed == (atm.vsnd * a1.cruise_mach) \div 100
      payload_max  == design_payload_max(a1)
      fuel         == ((a1.mtow - a1.owe - payload_max) * 100) \div (100 + a1.kr)
      range_pl_max == mission(a1, a1.mtow, fuel, TRUE)
      payload_fuel_max == design_payload_fuel_max(a1)
      fuel_max     == ((a1.mtow - a1.owe - payload_fuel_max) * 100) \div (100 + a1.kr)
      range_fuel_max == mission(a1, a1.mtow, fuel_max, TRUE)
      tow          == a1.owe + (fuel_max * (100 + a1.kr)) \div 100
      range_no_pl  == mission(a1, tow, fuel_max, TRUE)
  IN  [ac  |-> [a1 EXCEPT !.cruise_speed = cruise_speed,
                          !.payload_max = payload_max, !.range_pl_max = range_pl_max,
                          !.payload_fuel_max = payload_fuel_max,
                          !.range_fuel_max = range_fuel_max,
                          !.range_no_pl = range_no_pl],
       loc |-> [x |-> x, fuel |-> fuel, fuel_max |-> fuel_max, tow |-> tow]]

\* design_aircraft, lines 172-186, after fsolve returned x with ier = 1
design_envelope(a, x) ==
  Eval(LAMBDA a1 : envelope(a1, x), design_final_eval(a, x))

\* one solve made inside a call: fsolve with its status flag output_dict[2],
\* or off_design with p['success']
Fsolve(ier) == [solver |-> "fsolve", ier |-> ier]
OffDesign(success) == [solver |-> "off_design", success |-> success]

\* the outcome of a call: what it returned or the exception it raised, and
\* the solves that completed inside it, in order
Returned(op, args, solves, value) ==
  [op |-> op, args |-> args, status |-> "returned", solves |-> solves, err |-> NoError, value |-> value]

Raised(op, args, solves, err) ==
  [op |-> op, args |-> args, status |-> "raised", solves |-> solves, err |-> err, value |-> None]

Running(op, args) ==
  [op |-> op, args |-> args, status |-> "running", solves |-> <<>>, err |-> NoError, value |-> None]

\* the method with its test of the flag left out
return_without_check(op, args, solves, value) == Returned(op, args, solves, value)

\* if (dict[2] != 1): raise Exception("Convergence problem") after the
\* latest fsolve, then the rest of the method with its return value
raise_if_not_converged(op, args, solves, value) ==
  IF solves[Len(solves)].ier # 1 THEN Raised(op, args, solves, ConvergenceProblem)
  ELSE Returned(op, args, solves, value)

NoLocals == [x |-> <<None, None>>, fuel |-> None, fuel_max |-> None, tow |-> None]

\* operation(n_pax, range): the residual pair of fct(x_in)
operation_fct(a, n_pax, range, x_in) ==
  LET F[tow \in Int, fuel_mission \in Int] ==
        LET range_eff == mission(a, tow, fuel_mission, TRUE)
            owe_eff   == tow - (a.mpax * n_pax + fuel_mission + (a.kr * fuel_mission) \div 100)
        IN  <<a.owe - owe_eff, Sub(range, range_eff)>>
  IN  F[x_in[1], x_in[2]]

\* the take-off weight that closes the first equation of fct for this fuel
operation_tow(a, n_pax, fuel) ==
  a.owe + a.mpax * n_pax + fuel + (a.kr * fuel) \div 100

\* least fuel of the box that reaches the range
OperationRoot(a, n_pax, range) ==
  LET Reached(res) == IsNum(res) /\ res <= 0
      F[lo \in Int, hi \in Int] ==
        IF lo >= hi THEN <<operation_tow(a, n_pax, lo), lo>>
        ELSE IF Eval(Reached, operation_fct(a, n_pax, range,
                       <<operation_tow(a, n_pax, (lo + hi) \div 2), (lo + hi) \div 2>>)[2])
             THEN F[lo, (lo + hi) \div 2]
             ELSE F[(lo + hi) \div 2 + 1, hi]
  IN  F[0, MaxFuel]

\* estimates fsolve may return with ier = 1 in operation
OperationRoots(a, n_pax, range) ==
  Eval(LAMBDA x : {<<x[1] + dm, x[2]>> : dm \in -RootSpread..RootSpread},
       OperationRoot(a, n_pax, range))

\* the result of operation with take-off weight and fuel exchanged
operation_result_exchanged(a, range, x) ==
  <<x[1], (20 * 60) \div 100 + (a.cruise_speed * range) \div 10, x[2]>>

\* operation, lines 136-139, after fsolve returned x (mission_time in 100 s)
operation_result(a, range, x) ==
  LET tow          == x[1]
      mission_fuel == x[2]
      mission_time == (20 * 60) \div 100 + (a.cruise_speed * range) \div 10
  IN  <<mission_fuel, mission_time, tow>>

\* max_capacity with the last segment drawn from payload_max instead of
\* payload_fuel_max
max_capacity_steep(a, range) ==
  IF range <= a.range_pl_max
  THEN a.payload_max \div a.mpax
  ELSE IF a.range_pl_max < range /\ range <= a.range_fuel_max
  THEN (a.payload_fuel_max
        + ((a.payload_max - a.payload_fuel_max) * (range - a.range_fuel_max))
          \div (a.range_pl_max - a.range_fuel_max)) \div a.mpax
  ELSE IF a.range_fuel_max < range /\ range <= a.range_no_pl
  THEN ((a.payload_max * (range - a.range_no_pl))
        \div (a.range_fuel_max - a.range_no_pl)) \div a.mpax
  ELSE 0

\* Aircraft.max_capacity(range), lines 86-102: passengers at the range (km)
max_capacity(a, range) ==
  IF range <= a.range_pl_max
  THEN a.payload_max \div a.mpax
  ELSE IF a.range_pl_max < range /\ range <= a.range_fuel_max
  THEN (a.payload_fuel_max
        + ((a.payload_max - a.payload_fuel_max) * (range - a.range_fuel_max))
          \div (a.range_pl_max - a.range_fuel_max)) \div a.mpax
  ELSE IF a.range_fuel_max < range /\ range <= a.range_no_pl
  THEN ((a.payload_fuel_max * (range - a.range_no_pl))
        \div (a.range_fuel_max - a.range_no_pl)) \div a.mpax
  ELSE 0

\* Aircraft.max_range(npax), lines 104-117: range (km) with npax passengers
max_range(a, npax) ==
  LET payload == a.mpax * npax
  IN  IF a.payload_max < payload
      THEN 0
      ELSE IF a.payload_fuel_max < payload /\ payload <= a.payload_max
      THEN a.range_fuel_max
           + ((payload - a.payload_fuel_max) * (a.range_pl_max - a.range_fuel_max))
             \div (a.payload_max - a.payload_fuel_max)
      ELSE IF a.payload_fuel_max = 0
      THEN ZeroDiv
      ELSE a.range_no_pl
           + (payload * (a.range_fuel_max - a.range_no_pl)) \div a.payload_fuel_max

\* is_in_plr without its last test: both is never set to False
is_in_plr_no_both(a, npax, range) ==
  LET payload == npax * a.mpax
      c1 == a.payload_max - payload
      c2 == (payload - a.payload_fuel_max) * (a.range_pl_max - a.range_fuel_max)
            - (a.payload_max - a.payload_fuel_max) * (range - a.range_fuel_max)
      c3 == payload * (a.range_fuel_max - a.range_no_pl) - a.payload_max * (range - a.range_no_pl)
      c4 == a.range_no_pl - range
  IN  [capa |-> ~((c1 < 0 \/ c2 < 0 \/ c3 < 0) /\ c4 >= 0),
       dist |-> ~(c1 >= 0 /\ (c2 < 0 \/ c3 < 0 \/ c4 < 0)),
       both |-> TRUE]

\* Aircraft.is_in_plr(npax, range), lines 188-201
is_in_plr(a, npax, range) ==
  LET payload == npax * a.mpax
      c1 == a.payload_max - payload
      c2 == (payload - a.payload_fuel_max) * (a.range_pl_max - a.range_fuel_max)
            - (a.payload_max - a.payload_fuel_max) * (range - a.range_fuel_max)
      c3 == payload * (a.range_fuel_max - a.range_no_pl) - a.payload_max * (range - a.range_no_pl)
      c4 == a.range_no_pl - range
  IN  [capa |-> ~((c1 < 0 \/ c2 < 0 \/ c3 < 0) /\ c4 >= 0),
       dist |-> ~(c1 >= 0 /\ (c2 < 0 \/ c3 < 0 \/ c4 < 0)),
       both |-> ~(c1 < 0 /\ c4 < 0)]

\* an object that does not exist in the script at hand
NoObject == [class |-> "NoneType"]

\* Semi_empiric_ef_nacelle.__init__ (power in W, thrust in N, factors in percent)
Semi_empiric_ef_nacelle(n_pax_ref, design_range, n_engine) ==
  LET base == (100000 + (177 * n_pax_ref * design_range) \div 1000) \div n_engine
      reference_power == base * 133 + (base * 18) \div 1000
  IN  [class |-> "Semi_empiric_ef_nacelle",
       n_engine |-> n_engine,
       reference_power |-> reference_power,
       reference_thrust |-> (reference_power \div 8726) * 82,
       rating_factor |-> [MTO |-> 100, MCN |-> 90, MCL |-> 90, MCR |-> 90, FID |-> 10, VAR |-> 100],
       efficiency_fan |-> 95,
       efficiency_prop |-> 82,
       motor_efficiency |-> 95,
       controller_efficiency |-> 99,
       nozzle_area |-> None]

\* lines 460-463 and 529-532: jet speed (cm/s) and thrust (N) of the flow q0
\* (kg/s) that takes the shaft power PwShaft (W) at air speed Vair (cm/s)
ef_thrust(n, q0, PwShaft, Vair) ==
  LET F[q \in Int, Pw \in Int, V \in Int] ==
        LET PwInput == (n.efficiency_fan * (Pw \div 100))
            Vjet    == Sqrt(((2 * PwInput) \div q) * 10000 + V * V)
        IN  [PwInput |-> PwInput, Vjet |-> Vjet, eFn |-> (q * (Vjet - V)) \div 100]
  IN  F[q0, PwShaft, Vair]

\* earth.gas_data(): Cp = gam*r/(gam-1), in 1e-3 J/kg/K
Cp == (gam * r) \div (gam - 10)

\* 1 + 0.5*(gam-1)*Mach**2 in 1e-4, Mach in 1e-4
stagnation_ratio(Mach) == 10000 + (((Mach * Mach) \div 10000) * (gam - 10)) \div 20

\* earth.total_temperature(tamb, Mach) in mK
total_temperature(tamb, Mach) ==
  tamb + ((tamb \div 100) * (stagnation_ratio(Mach) - 10000)) \div 100

\* earth.total_pressure(pamb, Mach) in Pa: pamb*(1 + 0.5*(gam-1)*Mach**2)**3.5
total_pressure(pamb, Mach) ==
  LET F[u \in Int] ==
        (((((u * u) \div 10000) * u) \div 10000) * Sqrt(u * 10000)) \div 10000
  IN  ((pamb \div 10) * F[stagnation_ratio(Mach)]) \div 1000

\* corrected_air_flow(Ptot, Ttot, Mach) in 1e-3 kg/s/m2; np.sqrt(gam/r) is
\* taken in 1e-5
corrected_air_flow(Ptot, Ttot, Mach) ==
  LET F[P \in Int, T \in Int, M \in Int, u \in Int] ==
        LET f_m == (M * 10000) \div ((((u * u) \div 10000) * u) \div 10000)
            k   == Sqrt(((gam * 10^8) \div r) * 10000)
        IN  ((((((P * 10000) \div Sqrt(T * 1000)) * k) \div 1000) \div 10) * f_m) \div 1000
  IN  F[Ptot, Ttot, Mach, stagnation_ratio(Mach)]

\* the jet of the flow q (kg/s) that takes PwShaft behind the fan, lines
\* 427-435 and 492-500: CQoA1, the corrected air flow at the nozzle
jet_corrected_air_flow(n, q, PwShaft, pamb, Ttot, Vair) ==
  LET F[Vjet \in Int, TtotJet \in Int] ==
        LET TstatJet == TtotJet - (((Vjet \div 10) * (Vjet \div 10)) * 50) \div (Cp \div 100)
            MachJet  == (Vjet * 10000) \div sound_speed(TstatJet)
        IN  corrected_air_flow(total_pressure(pamb, MachJet), TtotJet, MachJet)
  IN  F[ef_thrust(n, q, PwShaft, Vair).Vjet,
        Ttot + ((PwShaft \div q) * 10000) \div (Cp \div 100)]

\* q0 = CQoA1*self.nozzle_area in kg/s, nozzle_area in 1e-3 m2
nozzle_flow(n, q, PwShaft, pamb, Ttot, Vair) ==
  ((jet_corrected_air_flow(n, q, PwShaft, pamb, Ttot, Vair) \div 10) * n.nozzle_area) \div 100000

\* efan_nacelle_design(Pamb, Tamb, Mach, shaft_power): the nozzle area that
\* passes the design flow q1 (1e-2 kg/s); the widths and wet areas, which no
\* solve reads but for its start value, are left out
efan_nacelle_design(n, Pamb, Tamb, Mach, shaft_power) ==
  LET Vair    == (Mach * sound_speed(Tamb)) \div 100
      deltaV  == (2 * Vair * ((n.efficiency_fan * 1000) \div n.efficiency_prop - 1000)) \div 1000
      PwInput == n.efficiency_fan * (shaft_power \div 100)
      Vjet    == Vair + deltaV
      dV2     == (Vjet * Vjet - Vair * Vair) \div 10000
      q1      == ((2 * PwInput) \div dV2) * 100 + (((2 * PwInput) % dV2) * 100) \div dV2
      Ttot    == total_temperature(Tamb, Mach * 100)
      TtotJet == Ttot + (((shaft_power \div q1) * 100 + ((shaft_power % q1) * 100) \div q1) * 10000)
                        \div (Cp \div 100)
      Tstat   == TtotJet - (((Vjet \div 10) * (Vjet \div 10)) * 50) \div (Cp \div 100)
      MachJet == (Vjet * 10000) \div sound_speed(Tstat)
      CQoA2   == corrected_air_flow(total_pressure(Pamb, MachJet), TtotJet, MachJet)
  IN  [n EXCEPT !.nozzle_area = (q1 * 10000) \div CQoA2]

\* eval_geometry, lines 332-341: the nacelle is designed for MCR at the cruise
\* point of the requirement (35000 ft, Mach 0.78)
cruise_point == [pamb |-> 23842, tamb |-> 218808, mach |-> 78]
ef_eval_geometry(n) ==
  efan_nacelle_design(n, cruise_point.pamb, cruise_point.tamb, cruise_point.mach,
                      (n.reference_power \div 100) * n.rating_factor["MCR"])

\* lines 443-444: the shaft power (W) the rating and the throttle (percent) ask for
ef_shaft_power(n, rating, throttle, pw_offtake) ==
  LET PwInput == ((((n.reference_power \div 100) * n.rating_factor[rating]) \div 100) * throttle)
                 - pw_offtake
  IN  (PwInput \div 10000) * (n.motor_efficiency * n.controller_efficiency)

\* output_dict[0] of the fsolve of a nacelle method: the flow and, in
\* unitary_sc, the shaft power
ef_locals(q0, Pw) == [NoLocals EXCEPT !.x = <<q0, Pw>>]

\* Semi_empiric_ef_nacelle.unitary_thrust, whose fsolve returned (q0, ier);
\* the flow q0 is any flow of FlowChoices, the continuity residual fct is
\* not constrained
ef_unitary_thrust(n, tamb, mach, rating, throttle, pw_offtake, q0, ier) ==
  LET PwShaft == ef_shaft_power(n, rating, throttle, pw_offtake)
      Vair    == (mach * sound_speed(tamb)) \div 100
  IN  raise_if_not_converged("ef.unitary_thrust", <<tamb, mach, rating, throttle, pw_offtake>>,
        <<Fsolve(ier)>>,
        Eval(LAMBDA t : [fn |-> t.eFn, pw |-> t.PwInput], ef_thrust(n, q0, PwShaft, Vair)))

\* the residual pair of fct in unitary_sc, lines 491-505, in kg/s and N
ef_sc_fct(n, x_in, thrust, pamb, Ttot, Vair) ==
  <<nozzle_flow(n, x_in[1], x_in[2], pamb, Ttot, Vair) - x_in[1],
    thrust - ef_thrust(n, x_in[1], x_in[2], Vair).eFn>>

\* the flow is balanced to Tol and the thrust to FnTol (N)
FnTol == 50
ScConverged(res) == Abs(res[1]) <= Tol /\ Abs(res[2]) <= FnTol

\* the least flow of the box whose nozzle does not pass more than it
FlowMin == 300
FlowMax == 2000
ContinuityFlow(n, PwShaft, pamb, Ttot, Vair) ==
  LET F[lo \in Int, hi \in Int] ==
        IF lo >= hi THEN lo
        ELSE IF Eval(LAMBDA q0 : q0 <= (lo + hi) \div 2,
                     nozzle_flow(n, (lo + hi) \div 2, PwShaft, pamb, Ttot, Vair))
             THEN F[lo, (lo + hi) \div 2]
             ELSE F[(lo + hi) \div 2 + 1, hi]
  IN  F[FlowMin, FlowMax]

\* the balanced point (q, Pw) of the nacelle n at the flight point f and the
\* shaft power Pw, and the thrust it delivers there
ScPoint(n, f, Pw) ==
  LET Vair == (f[2] * sound_speed(f[1])) \div 100
      Ttot == total_temperature(f[1], f[2] * 100)
  IN  Eval(LAMBDA q : [x |-> <<q, Pw>>, thrust |-> ef_thrust(n, q, Pw, Vair).eFn],
           ContinuityFlow(n, Pw, f[3], Ttot, Vair))

\* estimates fsolve may return with ier = 1 in unitary_sc: the points around
\* the balanced one, PwStep (W) apart, at which fct is within tolerance
PwStep == 5000
ScRoots(n, f, pt) ==
  LET Vair == (f[2] * sound_speed(f[1])) \div 100
      Ttot == total_temperature(f[1], f[2] * 100)
  IN  UNION {IF ScConverged(ef_sc_fct(n, x, pt.thrust, f[3], Ttot, Vair)) THEN {x} ELSE {} :
               x \in {<<pt.x[1] + dq, pt.x[2] + k * PwStep>> :
                        dq \in -RootSpread..RootSpread, k \in -RootSpread..RootSpread}}

\* the power multiplied by the fan efficiency once more, as unitary_thrust does
pw_kinetic(n, Pw) == n.efficiency_fan * (Pw \div 100)

\* the shaft power unitary_sc hands back: Pw of output_dict[0]
pw_shaft(n, Pw) == Pw

\* Semi_empiric_ef_nacelle.unitary_sc, whose fsolve returned ((q0, Pw), ier)
ef_unitary_sc(n, pamb, tamb, mach, rating, thrust, pw_offtake, q0, Pw, ier) ==
  LET Vair == (mach * sound_speed(tamb)) \div 100
  IN  raise_if_not_converged("ef.unitary_sc", <<pamb, tamb, mach, rating, thrust, pw_offtake>>,
        <<Fsolve(ier)>>,
        Eval(LAMBDA t : [sec  |-> Pw \div t.eFn,
                         pw   |-> pw_shaft(n, Pw),
                         thtl |-> (Pw + pw_offtake)
                                  \div ((n.reference_power \div 10000) * n.rating_factor[rating])],
             ef_thrust(n, q0, Pw, Vair)))

\* Semi_empiric_ef_nacelle.unitary_sc_2: fct_sc calls unitary_thrust at the
\* start value 0.95 inside fsolve (inner), fsolve returns (thtl, ier) (outer),
\* and unitary_thrust is called again at thtl (final); an exception of
\* unitary_thrust passes through fsolve and unitary_sc_2 unchanged
ef_unitary_sc_2(n, tamb, mach, rating, thrust, pw_offtake, inner, outer, final) ==
  LET args == <<tamb, mach, rating, thrust, pw_offtake>>
      d0   == ef_unitary_thrust(n, tamb, mach, rating, 95, pw_offtake, inner.x, inner.ier)
      chk  == raise_if_not_converged("ef.unitary_sc_2", args,
                                     d0.solves \o <<Fsolve(outer.ier)>>, None)
      dict == ef_unitary_thrust(n, tamb, mach, rating, outer.x, pw_offtake, final.x, final.ier)
  IN  IF d0.status = "raised" THEN Raised("ef.unitary_sc_2", args, d0.solves, d0.err)
      ELSE IF chk.status = "raised" THEN chk
      ELSE IF dict.status = "raised"
           THEN Raised("ef.unitary_sc_2", args, chk.solves \o dict.solves, dict.err)
           ELSE Returned("ef.unitary_sc_2", args, chk.solves \o dict.solves,
                         [sec  |-> dict.value.pw \div dict.value.fn,
                          pw   |-> dict.value.pw,
                          thtl |-> outer.x])

\* Exergetic_tf_nacelle.__init__ (thrust in N, temperature in K, lengths in mm)
Exergetic_tf_nacelle(n_pax_ref, design_range, n_engine) ==
  [class |-> "Exergetic_tf_nacelle",
   n_engine |-> n_engine,
   cruise_thrust |-> ((((20500 + (67 * n_pax_ref * design_range) \div 1000) * g) \div 1000) \div 18)
                     \div n_engine,
   reference_thrust |-> (100000 + (177 * n_pax_ref * design_range) \div 1000) \div n_engine,
   rating_factor |-> [MTO |-> 100, MCN |-> 95, MCL |-> 92, MCR |-> 90, FID |-> 25],
   engine_bpr |-> IF 80 < n_pax_ref THEN 9 ELSE 5,
   engine_T4max |-> 1700,
   flight |-> <<None, None>>,
   width |-> None,
   length |-> None]

\* what TF_model.off_design may hand back as (s, p): a converged point, the
\* last iterate of a solve that failed, or nothing but the flag
FnetChoices == {120000}
LastIterate == [Tt |-> 2500, Fnet |-> 500, wfe |-> 5000]
off_design(Ttmax, Fnet) ==
  {[s |-> [Tt |-> IF Ttmax # None THEN Ttmax ELSE 1500],
    p |-> [success |-> TRUE, Fnet |-> F, wfe |-> F \div 100]] :
      F \in IF Fnet # None THEN {Fnet} ELSE FnetChoices}
  \cup {[s |-> [Tt |-> LastIterate.Tt],
         p |-> [success |-> FALSE, Fnet |-> LastIterate.Fnet, wfe |-> LastIterate.wfe]],
        [s |-> NoObject, p |-> [success |-> FALSE]]}

\* p[key] and s["4"]["Tt"] of an off_design result
KeyError(key) == Raise("KeyError", <<key>>)
NotSubscriptable == Raise("TypeError", <<"'NoneType' object is not subscriptable">>)

\* bpr**0.7 and bpr**0.37 in 1/1000 for the two by-pass ratios of the class
bpr_pow == [e70 |-> [n \in {5, 9} |-> IF n = 9 THEN 4656 ELSE 3085],
            e37 |-> [n \in {5, 9} |-> IF n = 9 THEN 2255 ELSE 1814]]

\* Exergetic_tf_nacelle.eval_geometry, lines 95-111, with o the off_design result
tf_eval_geometry(n, o) ==
  LET n1 == [n EXCEPT !.flight = <<T0 + 15000, 25>>]
      sv == <<OffDesign(o.p.success)>>
  IN  IF "Fnet" \notin DOMAIN o.p
      THEN [nac |-> n1, ret |-> Raised("tf.eval_geometry", <<>>, sv, KeyError("Fnet"))]
      ELSE LET width == bpr_pow.e70[n.engine_bpr] \div 2 + o.p.Fnet \div 200
           IN  [nac |-> [n1 EXCEPT !.reference_thrust = o.p.Fnet,
                                   !.width = width,
                                   !.length = (86 * width) \div 100 + bpr_pow.e37[n.engine_bpr]],
                ret |-> Returned("tf.eval_geometry", <<>>, sv, None)]

\* T4 that Exergetic_tf_nacelle.unitary_thrust asks of off_design
tf_T4(n, rating, throttle) ==
  (((n.engine_T4max * n.rating_factor[rating]) \div 100)
   * (throttle + (n.rating_factor["FID"] * (100 - throttle)) \div 100)) \div 100

\* Exergetic_tf_nacelle.unitary_thrust with o the off_design result
tf_unitary_thrust(n, tamb, mach, rating, throttle, pw_offtake, o) ==
  LET args == <<tamb, mach, rating, throttle, pw_offtake>>
      sv   == <<OffDesign(o.p.success)>>
  IN  [nac |-> [n EXCEPT !.flight = <<tamb, mach>>],
       ret |-> IF "Fnet" \notin DOMAIN o.p
               THEN Raised("tf.unitary_thrust", args, sv, KeyError("Fnet"))
               ELSE Returned("tf.unitary_thrust", args, sv, <<o.p.Fnet, o.p.wfe>>)]

\* Exergetic_tf_nacelle.unitary_sc with o the off_design result
\* (wfe in g/s, sfc in 1e-8 kg/N/s, throttle in percent)
tf_unitary_sc(n, tamb, mach, rating, thrust, pw_offtake, o) ==
  LET args == <<tamb, mach, rating, thrust, pw_offtake>>
      sv   == <<OffDesign(o.p.success)>>
  IN  [nac |-> [n EXCEPT !.flight = <<tamb, mach>>],
       ret |-> IF "Tt" \notin DOMAIN o.s
               THEN Raised("tf.unitary_sc", args, sv, NotSubscriptable)
               ELSE Returned("tf.unitary_sc", args, sv,
                      <<(o.p.wfe * 100000) \div o.p.Fnet,
                        (o.s.Tt * 100) \div ((n.engine_T4max * n.rating_factor[rating]) \div 100)>>)]

\* Turbofan.py, line 78: the thrust levels of the cruise loop, in percent of FnRef
Tm == <<110, 108, 106, 104, 102, 100, 98, 96, 94, 92, 90, 88, 86, 84, 82, 80, 78, 76,
        74, 72, 70, 68, 66, 64, 62, 60, 58, 56, 54, 52, 50>>

\* TF.magic_guess(): the flow estimate from the inlet Mach and the fan geometry
magic_guess == <<"magic_guess">>
\* no unknown-vector at all
NoSol == <<"none">>

\* off_design with p['sol']: the converged unknown-vector of the point, or
\* the last iterate of a solve that failed; an outcome that is nothing but
\* the flag has no 'sol'
off_design_sol(Ttmax, Fnet) ==
  {IF "Fnet" \in DOMAIN o.p
   THEN [s |-> o.s,
         p |-> [success |-> o.p.success, Fnet |-> o.p.Fnet, wfe |-> o.p.wfe,
                sol |-> <<IF o.p.success THEN "sol" ELSE "iterate", Ttmax, Fnet>>]]
   ELSE o : o \in off_design(Ttmax, Fnet)}

\* Turbofan.py, lines 81-83: the locals of the cruise loop after the
\* off-design call at N1 = 1 returned p
cruise_loop_locals(p) ==
  [i |-> 0, FnRef |-> p.Fnet, guess |-> p.sol, seed |-> NoSol, ok |-> NoSol, prev_ok |-> NoSol]

\* Turbofan.py, lines 84-89: one turn of the loop, whose off_design call was
\* seeded with w.guess and returned p; seed is the guess that call was given,
\* ok the p['sol'] of the latest successful call of the loop and prev_ok the
\* same before this call.  Fn and sfc collect the points of the successful
\* calls for the plot
cruise_loop_turn(w, p) ==
  [i |-> w.i + 1,
   FnRef |-> w.FnRef,
   guess |-> IF p.success THEN p.sol ELSE w.guess,
   seed |-> w.guess,
   ok |-> IF p.success THEN p.sol ELSE w.ok,
   prev_ok |-> w.ok]

\* two callers that each invoke unitary_thrust on the same nacelle object
Threads == {1, 2}

\* a caller about to invoke unitary_thrust at the flight point f; at is the
\* flight condition TF_model holds when its off_design runs
thread_call(f) ==
  [pc |-> "set_flight", flight |-> <<f[1], f[2]>>, at |-> <<None, None>>,
   ret |-> Running("tf.unitary_thrust", <<f[1], f[2], "MTO", 100, 0>>)]

\* interface.py, line 130: self.TF_model.set_flight(tamb, pamb, mach)
set_flight(n, tamb, mach) == [n EXCEPT !.flight = <<tamb, mach>>]

\* the scripts of the model: what one behaviour exercises
AircraftScenarios == {"sizing", "operation", "lookup", "roundtrip"}
NacelleScenarios == {"efan", "turbofan"}
Scenarios == AircraftScenarios \cup NacelleScenarios \cup {"sweep", "parallel", "fleet"}

\* the requirements and arrangement the nacelles are built for
NacPaxChoices == {80, 150}
NacRangeChoices == {5556}
NEngineChoices == {2}

\* the calls of the nacelle scripts: flight points (tamb, mach, pamb) at sea
\* level, ISA + 15, and at the cruise point
FlightChoices == {<<T0 + 15000, 25, 101325>>, <<218808, 78, 23842>>}
RatingChoices == {"MTO", "MCR"}
ThrustChoices == {20000}
FlowChoices == {300, 500}
PwChoices == {5000000, 8000000}
ThtlChoices == {80}

\* the calls of the operation and lookup scripts
OpPaxChoices == {80, 150}
OpRangeChoices == {500, 1000}
MissionChoices ==
  {<<70000, 11600>>, <<70000, 0>>, <<70000, 70000>>, <<60000, 70000>>,
   <<0, 0>>, <<0, 1000>>, <<-1000, -500>>}
AltpChoices == {0, 10668, 11000, 20000, 32000, 47000, 49999, 50000, 50001}

\* the ranges (km) and passenger counts the envelope of the aircraft a is
\* looked up at: its corners, their neighbours, points inside every segment
\* and points outside
EnvelopeRanges(a) ==
  {0, a.range_pl_max, a.range_pl_max + 1, (a.range_pl_max + a.range_fuel_max) \div 2,
   a.range_fuel_max, a.range_fuel_max + 1, (a.range_fuel_max + a.range_no_pl) \div 2,
   a.range_no_pl, a.range_no_pl + 1, 2 * a.range_no_pl}
EnvelopePax(a) ==
  {0, 1, (a.payload_fuel_max * 6) \div (a.mpax * 10), a.payload_fuel_max \div a.mpax,
   a.payload_fuel_max \div a.mpax + 1, a.npax, a.payload_max \div a.mpax,
   a.payload_max \div a.mpax + 1}

\* the nacelles of the electric fan script, their geometry designed
EfanNacelles ==
  {ef_eval_geometry(Semi_empiric_ef_nacelle(n, d, ne)) :
     n \in NacPaxChoices, d \in NacRangeChoices, ne \in NEngineChoices}

\* the balanced point of every unitary_sc call of the model with the
\* estimates fsolve may return for it, computed once
ScTable ==
  {<<n, f, Pw, Eval(LAMBDA pt : [thrust |-> pt.thrust, roots |-> ScRoots(n, f, pt)],
                    ScPoint(n, f, Pw))>> :
     n \in EfanNacelles, f \in FlightChoices, Pw \in PwChoices}

ScCall(n, f, Pw) == (CHOOSE e \in ScTable : e[1] = n /\ e[2] = f /\ e[3] = Pw)[4]

(***************************************************************************)
(* Fleet (design_model.py, lines 268-343)                                  *)
(***************************************************************************)
\* the aircraft Aircraft(npax, range) leaves when its fsolve, started at
\* Xini, returns the balance point
SizedAircraft(npax, range) ==
  Eval(LAMBDA a : design_envelope(eval_design(a, Xini(a)).ac, DesignRoot(a)).ac,
       design_args(NewAircraft(npax, range), None, None))

\* the masses and the envelope of the aircraft a are numbers
HasEnvelope(a) ==
  \A v \in {a.mtow, a.owe, a.payload_max, a.range_pl_max, a.payload_fuel_max,
             a.range_fuel_max, a.range_no_pl} : IsNum(v)

\* Fleet.__init__, lines 271-284
Fleet(ac_list) ==
  LET zeros == [i \in 1..Len(ac_list) |-> 0]
  IN  [class |-> "Fleet", aircraft |-> ac_list, network |-> None,
       fleet_trip |-> zeros, fleet_npax |-> zeros, fleet_capa |-> zeros,
       fleet_dist |-> zeros, fleet_fuel |-> zeros, fleet_time |-> zeros,
       fleet_paxkm |-> zeros, fleet_tonkm |-> zeros]

\* the eight accumulators of a fleet
Accumulators(fl) ==
  <<fl.fleet_trip, fl.fleet_npax, fl.fleet_capa, fl.fleet_dist, fl.fleet_fuel,
    fl.fleet_time, fl.fleet_paxkm, fl.fleet_tonkm>>

\* the positions by decreasing MTOW
argsort_descending(mtow_list) ==
  LET n == Len(mtow_list)
  IN  CHOOSE p \in [1..n -> 1..n] :
        /\ \A j, k \in 1..n : j # k => p[j] # p[k]
        /\ \A k \in 1..(n - 1) : mtow_list[p[k]] >= mtow_list[p[k + 1]]

\* np.argsort(mtow_list), line 292: the positions by increasing MTOW
argsort(mtow_list) ==
  LET n == Len(mtow_list)
  IN  CHOOSE p \in [1..n -> 1..n] :
        /\ \A j, k \in 1..n : j # k => p[j] # p[k]
        /\ \A k \in 1..(n - 1) : mtow_list[p[k]] <= mtow_list[p[k + 1]]

\* fleet_analysis, lines 291-292
fleet_index(fl) == argsort([i \in 1..Len(fl.aircraft) |-> fl.aircraft[i].mtow])

\* lines 308-309: the demand of column c, row r (counted from 0); dist in km
cell_npax(data, col) == data.npax_step * (1 + col)
cell_dist(data, row) == (data.range_step * (1 + row) * 115) \div 100

\* line 314: the three flags of is_in_plr are all True
accepts(a, npax, dist) ==
  LET out_dict == is_in_plr(a, npax, dist)
  IN  out_dict.capa /\ out_dict.dist /\ out_dict.both

\* lines 312-314: the positions of index whose aircraft accept the cell
accepting(fl, index, npax, dist) ==
  {k \in 1..Len(index) : accepts(fl.aircraft[index[k]], npax, dist)}

\* fly_it that stops after its first accumulator
fly_it_trip_only(fl, i, nflight, capa, npax, dist, res) ==
  [fl EXCEPT !.fleet_trip[i] = @ + nflight]

\* fly_it, lines 295-304, with <<fuel, time, tow>> returned by operation
fly_it(fl, i, nflight, capa, npax, dist, res) ==
  [fl EXCEPT !.fleet_trip[i] = @ + nflight,
             !.fleet_npax[i] = @ + npax * nflight,
             !.fleet_capa[i] = @ + capa * nflight,
             !.fleet_dist[i] = @ + dist * nflight,
             !.fleet_fuel[i] = @ + res[1] * nflight,
             !.fleet_time[i] = @ + res[2] * nflight,
             !.fleet_paxkm[i] = @ + npax * dist * nflight,
             !.fleet_tonkm[i] = @ + ((dist * npax * fl.aircraft[i].mpax) \div 1000) * nflight]

\* self.aircraft[i].operation(npax, dist) inside fly_it when its fsolve
\* returns the balance point
fly_operation(a, npax, dist) ==
  Eval(LAMBDA x : operation_result(a, dist, x), OperationRoot(a, npax, dist))

\* lines 335-343: the totals fleet_analysis returns
RECURSIVE sum(_)
sum(l) == IF l = <<>> THEN 0 ELSE Head(l) + sum(Tail(l))
fleet_totals(fl) ==
  [trip |-> sum(fl.fleet_trip), npax |-> sum(fl.fleet_npax), capa |-> sum(fl.fleet_capa),
   dist |-> sum(fl.fleet_dist), fuel |-> sum(fl.fleet_fuel), time |-> sum(fl.fleet_time),
   tonkm |-> sum(fl.fleet_tonkm), paxkm |-> sum(fl.fleet_paxkm)]

\* fleet_analysis, lines 287-293 and 306-307: the locals before the first cell
fleet_analysis_locals(fl, data) ==
  [self |-> fl, data |-> data, index |-> fleet_index(fl),
   nc |-> Len(data.matrix), nr |-> Len(data.matrix[1]), c |-> 0, r |-> 0,
   npax |-> None, dist |-> None, capa |-> None, nf |-> 0, served |-> <<>>]

\* the end of one turn of `for r in range(nr)`: the next cell of the
\* matrix, or c = nc after the last one
next_cell(w) ==
  [w EXCEPT !.c = IF w.r + 1 < w.nr THEN @ ELSE @ + 1,
            !.r = IF w.r + 1 < w.nr THEN @ + 1 ELSE 0]

\* the branch of lines 312-333 the cell at hand took and the aircraft it
\* was given to, kept in the order of the cells
serve(w, by, how) ==
  [w EXCEPT !.served = Append(@, [c |-> w.c, r |-> w.r, by |-> by, how |-> how])]

\* line 310: nflight of the cell at hand
cell_nflight(w) == w.data.matrix[w.c + 1][w.r + 1]

\* line 325: the condition of the max-capacity loop
fallback_continues(npax, capa) == 10 * npax > 4 * capa

\* the fleets of the model, not listed by MTOW, their aircraft sized
FleetChoices == {<<<<150, 5556>>, <<100, 1000>>>>, <<<<100, 5556>>>>}
FleetTable ==
  UNION {Eval(LAMBDA ac_list : IF \A k \in 1..Len(ac_list) : HasEnvelope(ac_list[k])
                               THEN {ac_list} ELSE {},
              [k \in 1..Len(f) |-> SizedAircraft(f[k][1], f[k][2])]) : f \in FleetChoices}

\* the demand matrices of the model for a fleet: 3 x 2 cells, passengers in
\* steps that stay inside the payload of the heaviest aircraft or leave it,
\* distances (km) in steps that put the second row inside the range of the
\* heaviest aircraft, just below its range_no_pl, or beyond it
MatrixChoices == {<<<<1, 2>>, <<0, 1>>, <<1, 1>>>>}
NpaxStepChoices == {40, 70}
RangeStepChoices(ac_list) ==
  LET mtow_list == [i \in 1..Len(ac_list) |-> ac_list[i].mtow]
      last      == ac_list[argsort(mtow_list)[Len(ac_list)]]
      below     == (last.range_no_pl * 100) \div 230
  IN  {3000, below, below + 50}
\* a demand whose first row lies on the last segment of the envelope of the
\* heaviest aircraft, between range_fuel_max and range_no_pl
LastSegmentData(ac_list) ==
  LET mtow_list == [i \in 1..Len(ac_list) |-> ac_list[i].mtow]
      last      == ac_list[argsort(mtow_list)[Len(ac_list)]]
      quarter   == last.range_fuel_max + (last.range_no_pl - last.range_fuel_max) \div 4
  IN  {[npax_step |-> 32, range_step |-> (quarter * 100) \div 115, matrix |-> m] :
         m \in MatrixChoices}
DataChoices(ac_list) ==
  {[npax_step |-> cs, range_step |-> rs, matrix |-> m] :
     cs \in NpaxStepChoices, rs \in RangeStepChoices(ac_list), m \in MatrixChoices}
  \cup LastSegmentData(ac_list)
\* turns of the max-capacity loop the model follows
MaxFlights == 4

(***************************************************************************)
(* Exact arithmetic: fractions <<numerator, denominator>> in lowest terms   *)
(* with a positive denominator, for the lookups whose round trip is read    *)
(* without rounding                                                         *)
(***************************************************************************)
RECURSIVE Gcd(_, _)
Gcd(x, y) == IF y = 0 THEN x ELSE Gcd(y, x % y)

Q(num, den) ==
  LET k  == Gcd(Abs(num), Abs(den))
      sg == IF den < 0 THEN -1 ELSE 1
  IN  <<(sg * num) \div k, (sg * den) \div k>>
QInt(x) == <<x, 1>>
QAdd(x, y) == Q(x[1] * y[2] + y[1] * x[2], x[2] * y[2])
QSub(x, y) == Q(x[1] * y[2] - y[1] * x[2], x[2] * y[2])
\* the factors are cancelled across before they are multiplied
QMul(x, y) ==
  LET a == Q(x[1], y[2])
      b == Q(y[1], x[2])
  IN  Q(a[1] * b[1], a[2] * b[2])
QDiv(x, y) == QMul(x, <<y[2], y[1]>>)
QLe(x, y) == x[1] * y[2] <= y[1] * x[2]
QLt(x, y) == x[1] * y[2] < y[1] * x[2]
\* np.floor
QFloor(x) == x[1] \div x[2]

\* max_capacity with the last segment drawn from payload_max, in exact
\* arithmetic
max_capacity_exact_steep(a, range) ==
  LET pm  == QInt(a.payload_max)
      pfm == QInt(a.payload_fuel_max)
      rpm == QInt(a.range_pl_max)
      rfm == QInt(a.range_fuel_max)
      rnp == QInt(a.range_no_pl)
      mp  == QInt(a.mpax)
  IN  IF QLe(range, rpm)
      THEN QFloor(QDiv(pm, mp))
      ELSE IF QLt(rpm, range) /\ QLe(range, rfm)
      THEN QFloor(QDiv(QAdd(pfm, QDiv(QMul(QSub(pm, pfm), QSub(range, rfm)), QSub(rpm, rfm))), mp))
      ELSE IF QLt(rfm, range) /\ QLe(range, rnp)
      THEN QFloor(QDiv(QDiv(QMul(pm, QSub(range, rnp)), QSub(rfm, rnp)), mp))
      ELSE 0

\* Aircraft.max_capacity(range), lines 86-102, in exact arithmetic: range
\* is a fraction of a km
max_capacity_exact(a, range) ==
  LET pm  == QInt(a.payload_max)
      pfm == QInt(a.payload_fuel_max)
      rpm == QInt(a.range_pl_max)
      rfm == QInt(a.range_fuel_max)
      rnp == QInt(a.range_no_pl)
      mp  == QInt(a.mpax)
  IN  IF QLe(range, rpm)
      THEN QFloor(QDiv(pm, mp))
      ELSE IF QLt(rpm, range) /\ QLe(range, rfm)
      THEN QFloor(QDiv(QAdd(pfm, QDiv(QMul(QSub(pm, pfm), QSub(range, rfm)), QSub(rpm, rfm))), mp))
      ELSE IF QLt(rfm, range) /\ QLe(range, rnp)
      THEN QFloor(QDiv(QDiv(QMul(pfm, QSub(range, rnp)), QSub(rfm, rnp)), mp))
      ELSE 0

\* Aircraft.max_range(npax), lines 104-117, in exact arithmetic: the range
\* is a fraction of a km
max_range_exact(a, npax) ==
  LET payload == a.mpax * npax
      pm  == QInt(a.payload_max)
      pfm == QInt(a.payload_fuel_max)
      rpm == QInt(a.range_pl_max)
      rfm == QInt(a.range_fuel_max)
      rnp == QInt(a.range_no_pl)
  IN  IF a.payload_max < payload
      THEN QInt(0)
      ELSE IF a.payload_fuel_max < payload /\ payload <= a.payload_max
      THEN QAdd(rfm, QDiv(QMul(QSub(QInt(payload), pfm), QSub(rpm, rfm)), QSub(pm, pfm)))
      ELSE QAdd(rnp, QDiv(QMul(QInt(payload), QSub(rfm, rnp)), pfm))

\* the whole passenger counts of the round trip: from none to some more
\* than payload_max carries
RoundTripPax(a) == 0..(a.payload_max \div a.mpax + 3)

Init ==
  /\ scenario \in Scenarios
  /\ CASE scenario \in AircraftScenarios ->
            /\ \E npax \in NPaxChoices, range \in RangeChoices : ac = NewAircraft(npax, range)
            /\ nac = NoObject
            /\ pc = "__init__"
            /\ ret = Running("__init__", <<>>)
       [] scenario \in NacelleScenarios ->
            /\ ac = NoObject
            /\ \E n \in NacPaxChoices, d \in NacRangeChoices, ne \in NEngineChoices :
                 nac = IF scenario = "efan" THEN ef_eval_geometry(Semi_empiric_ef_nacelle(n, d, ne))
                       ELSE Exergetic_tf_nacelle(n, d, ne)
            /\ pc = "idle"
            /\ ret = Returned("__init__", <<>>, <<>>, None)
       [] scenario = "sweep" ->
            /\ ac = NoObject
            /\ nac = NoObject
            /\ pc = "script"
            /\ ret = Running("Turbofan.py", <<>>)
       [] scenario = "parallel" ->
            /\ ac = NoObject
            /\ \E n \in NacPaxChoices, d \in NacRangeChoices, ne \in NEngineChoices :
                 nac = Exergetic_tf_nacelle(n, d, ne)
            /\ pc = "threads"
            /\ ret = Returned("__init__", <<>>, <<>>, None)
       [] scenario = "fleet" ->
            /\ ac = NoObject
            /\ nac = NoObject
            /\ pc = "cell"
            /\ ret = Running("fleet_analysis", <<>>)
  /\ nfev = 0
  /\ loc = NoLocals
  /\ sweep = NoObject
  /\ IF scenario = "parallel"
     THEN \E f1 \in FlightChoices : \E f2 \in FlightChoices \ {f1} :
            thr = [t \in Threads |-> thread_call(IF t = 1 THEN f1 ELSE f2)]
     ELSE thr = NoObject
  /\ IF scenario = "fleet"
     THEN \E ac_list \in FleetTable : \E data \in DataChoices(ac_list) :
            fleet = fleet_analysis_locals(Fleet(ac_list), data)
     ELSE fleet = NoObject

\* design_aircraft is entered (from __init__ at line 58 without arguments,
\* later by the caller) and fsolve evaluates eval_design at Xini
design_aircraft_call(kr_arg, mpax_arg) ==
  /\ pc = "__init__" \/ (pc = "idle" /\ scenario = "sizing")
  /\ pc = "__init__" => kr_arg = None /\ mpax_arg = None
  /\ ac' = Eval(LAMBDA a : eval_design(a, Xini(a)).ac, design_args(ac, kr_arg, mpax_arg))
  /\ pc' = IF pc = "__init__" THEN "__init__.fsolve" ELSE "fsolve"
  /\ nfev' = 1
  /\ loc' = NoLocals
  /\ ret' = Running("design_aircraft", <<kr_arg, mpax_arg>>)
  /\ UNCHANGED <<scenario, sweep, thr, fleet, nac>>

\* fsolve evaluates eval_design at one more point
fsolve_eval_design ==
  /\ pc \in {"__init__.fsolve", "fsolve"}
  /\ nfev <= MaxIter
  /\ \E X \in DesignIterates(ac) : ac' = eval_design(ac, X).ac
  /\ nfev' = nfev + 1
  /\ UNCHANGED <<scenario, sweep, thr, fleet, nac, pc, loc, ret>>

\* fsolve returns ier = 1 and design_aircraft runs to its end
design_aircraft_return ==
  /\ pc \in {"__init__.fsolve", "fsolve"}
  /\ \E x \in DesignRoots(ac) :
       /\ Converged(eval_design(ac, x).res)
       /\ LET d == design_envelope(ac, x)
          IN  ac' = d.ac /\ loc' = d.loc
  /\ pc' = "idle"
  /\ nfev' = 0
  /\ ret' = raise_if_not_converged("design_aircraft", ret.args, <<Fsolve(1)>>, None)
  /\ UNCHANGED <<scenario, sweep, thr, fleet, nac>>

\* fsolve returns ier # 1 and design_aircraft raises; an aircraft whose
\* constructor raised is lost
design_aircraft_raise(ier) ==
  /\ pc \in {"__init__.fsolve", "fsolve"}
  /\ pc' = IF pc = "__init__.fsolve" THEN "lost" ELSE "idle"
  /\ nfev' = 0
  /\ ret' = raise_if_not_converged("design_aircraft", ret.args, <<Fsolve(ier)>>, None)
  /\ UNCHANGED <<scenario, sweep, thr, fleet, ac, nac, loc>>

\* operation(n_pax, range) whose fsolve returns x with ier = 1
operation_return(n_pax, range) ==
  /\ pc = "idle" /\ scenario = "operation"
  /\ \E x \in OperationRoots(ac, n_pax, range) :
       /\ Converged(operation_fct(ac, n_pax, range, x))
       /\ ret' = raise_if_not_converged("operation", <<n_pax, range>>, <<Fsolve(1)>>,
                                        operation_result(ac, range, x))
  /\ UNCHANGED <<scenario, sweep, thr, fleet, ac, nac, pc, nfev, loc>>

\* operation(n_pax, range) whose fsolve returns ier # 1
operation_raise(n_pax, range, ier) ==
  /\ pc = "idle" /\ scenario = "operation"
  /\ ret' = raise_if_not_converged("operation", <<n_pax, range>>, <<Fsolve(ier)>>, None)
  /\ UNCHANGED <<scenario, sweep, thr, fleet, ac, nac, pc, nfev, loc>>

\* mission(tow, fuel_mission) called on the aircraft
mission_call(tow, fuel_mission, np) ==
  /\ pc = "idle" /\ scenario = "lookup"
  /\ ret' = Eval(LAMBDA v : IF v = ZeroDiv
                            THEN Raised("mission", <<tow, fuel_mission>>, <<>>,
                                        Raise("ZeroDivisionError", <<"float division by zero">>))
                            ELSE Returned("mission", <<tow, fuel_mission>>, <<>>, v),
                 mission(ac, tow, fuel_mission, np))
  /\ UNCHANGED <<scenario, sweep, thr, fleet, ac, nac, pc, nfev, loc>>

\* atmosphere(altp) called on the aircraft
atmosphere_call(altp) ==
  /\ pc = "idle" /\ scenario = "lookup"
  /\ ret' = Eval(LAMBDA atm : IF atm.err # NoError
                              THEN Raised("atmosphere", <<altp>>, <<>>, atm.err)
                              ELSE Returned("atmosphere", <<altp>>, <<>>, atm),
                 atmosphere(altp, 0))
  /\ UNCHANGED <<scenario, sweep, thr, fleet, ac, nac, pc, nfev, loc>>

\* max_capacity(range) called on the sized aircraft
max_capacity_call ==
  /\ pc = "idle" /\ scenario = "lookup"
  /\ \E range \in EnvelopeRanges(ac) :
       ret' = Returned("max_capacity", <<range>>, <<>>, max_capacity(ac, range))
  /\ UNCHANGED <<scenario, sweep, thr, fleet, ac, nac, pc, nfev, loc>>

\* max_range(npax) called on the sized aircraft
max_range_call ==
  /\ pc = "idle" /\ scenario = "lookup"
  /\ \E npax \in EnvelopePax(ac) :
       ret' = Eval(LAMBDA v : IF v = ZeroDiv
                              THEN Raised("max_range", <<npax>>, <<>>,
                                          Raise("ZeroDivisionError", <<"float division by zero">>))
                              ELSE Returned("max_range", <<npax>>, <<>>, v),
                   max_range(ac, npax))
  /\ UNCHANGED <<scenario, sweep, thr, fleet, ac, nac, pc, nfev, loc>>

\* max_capacity(max_range(npax)) evaluated once on the sized aircraft
round_trip_call ==
  /\ pc = "idle" /\ scenario = "roundtrip"
  /\ \E npax \in RoundTripPax(ac) :
       ret' = Eval(LAMBDA range : Returned("max_capacity(max_range)", <<npax>>, <<>>,
                                           [range |-> range,
                                            capacity |-> max_capacity_exact(ac, range)]),
                   max_range_exact(ac, npax))
  /\ pc' = "done"
  /\ UNCHANGED <<scenario, sweep, thr, fleet, ac, nac, nfev, loc>>

\* is_in_plr(npax, range) called on the sized aircraft
is_in_plr_call ==
  /\ pc = "idle" /\ scenario = "lookup"
  /\ \E npax \in EnvelopePax(ac), range \in EnvelopeRanges(ac) :
       ret' = Returned("is_in_plr", <<npax, range>>, <<>>, is_in_plr(ac, npax, range))
  /\ UNCHANGED <<scenario, sweep, thr, fleet, ac, nac, pc, nfev, loc>>

\* Semi_empiric_ef_nacelle.unitary_thrust called on the nacelle
ef_unitary_thrust_call(f, rating, throttle, q0, ier) ==
  /\ pc = "idle" /\ scenario = "efan"
  /\ ret' = ef_unitary_thrust(nac, f[1], f[2], rating, throttle, 0, q0, ier)
  /\ loc' = ef_locals(q0, None)
  /\ UNCHANGED <<scenario, sweep, thr, fleet, ac, nac, pc, nfev>>

\* Semi_empiric_ef_nacelle.unitary_sc called on the nacelle for the thrust
\* it delivers at the shaft power Pw0, whose fsolve returns a balanced point
ef_unitary_sc_return(f, rating, Pw0) ==
  /\ pc = "idle" /\ scenario = "efan"
  /\ LET call == ScCall(nac, f, Pw0)
     IN  \E x \in call.roots :
           /\ ret' = ef_unitary_sc(nac, f[3], f[1], f[2], rating, call.thrust, 0, x[1], x[2], 1)
           /\ loc' = ef_locals(x[1], x[2])
  /\ UNCHANGED <<scenario, sweep, thr, fleet, ac, nac, pc, nfev>>

\* Semi_empiric_ef_nacelle.unitary_sc whose fsolve returns ier # 1
ef_unitary_sc_raise(f, rating, thrust, q0, Pw, ier) ==
  /\ pc = "idle" /\ scenario = "efan"
  /\ ret' = ef_unitary_sc(nac, f[3], f[1], f[2], rating, thrust, 0, q0, Pw, ier)
  /\ loc' = ef_locals(q0, Pw)
  /\ UNCHANGED <<scenario, sweep, thr, fleet, ac, nac, pc, nfev>>

\* Semi_empiric_ef_nacelle.unitary_sc_2 called on the nacelle
ef_unitary_sc_2_call(f, rating, thrust, inner, outer, final) ==
  /\ pc = "idle" /\ scenario = "efan"
  /\ ret' = ef_unitary_sc_2(nac, f[1], f[2], rating, thrust, 0, inner, outer, final)
  /\ loc' = ef_locals(final.x, None)
  /\ UNCHANGED <<scenario, sweep, thr, fleet, ac, nac, pc, nfev>>

\* Exergetic_tf_nacelle.eval_geometry called on the nacelle
tf_eval_geometry_call ==
  /\ pc = "idle" /\ scenario = "turbofan"
  /\ \E o \in off_design((nac.engine_T4max * nac.rating_factor["MTO"]) \div 100, None) :
       LET d == tf_eval_geometry(nac, o) IN nac' = d.nac /\ ret' = d.ret
  /\ UNCHANGED <<scenario, sweep, thr, fleet, ac, pc, nfev, loc>>

\* Exergetic_tf_nacelle.unitary_thrust called on the nacelle
tf_unitary_thrust_call(f, rating, throttle) ==
  /\ pc = "idle" /\ scenario = "turbofan"
  /\ \E o \in off_design(tf_T4(nac, rating, throttle), None) :
       LET d == tf_unitary_thrust(nac, f[1], f[2], rating, throttle, 0, o)
       IN  nac' = d.nac /\ ret' = d.ret
  /\ UNCHANGED <<scenario, sweep, thr, fleet, ac, pc, nfev, loc>>

\* Exergetic_tf_nacelle.unitary_sc called on the nacelle
tf_unitary_sc_call(f, rating, thrust) ==
  /\ pc = "idle" /\ scenario = "turbofan"
  /\ \E o \in off_design(None, thrust) :
       LET d == tf_unitary_sc(nac, f[1], f[2], rating, thrust, 0, o)
       IN  nac' = d.nac /\ ret' = d.ret
  /\ UNCHANGED <<scenario, sweep, thr, fleet, ac, pc, nfev, loc>>

\* Turbofan.py, lines 70-83: the off-design call at N1 = 1 that precedes the
\* cruise loop; FnRef = p['Fnet'] and guess = p['sol'] are read whatever
\* p['success'] says
cruise_loop_enter ==
  /\ pc = "script" /\ scenario = "sweep"
  /\ \E o \in off_design_sol(None, None) :
       IF "Fnet" \notin DOMAIN o.p
       THEN /\ pc' = "done"
            /\ ret' = Raised("Turbofan.py", <<>>, <<OffDesign(o.p.success)>>, KeyError("Fnet"))
            /\ UNCHANGED sweep
       ELSE /\ pc' = "loop"
            /\ sweep' = cruise_loop_locals(o.p)
            /\ UNCHANGED ret
  /\ UNCHANGED <<scenario, thr, fleet, ac, nac, nfev, loc>>

\* Turbofan.py, lines 84-89: for T in Tm
cruise_loop_step ==
  /\ pc = "loop" /\ scenario = "sweep"
  /\ sweep.i < Len(Tm)
  /\ \E o \in off_design_sol(None, (Tm[sweep.i + 1] * sweep.FnRef) \div 100) :
       sweep' = cruise_loop_turn(sweep, o.p)
  /\ UNCHANGED <<scenario, thr, fleet, ac, nac, pc, nfev, loc, ret>>

\* the loop is over and the script goes on to its plot
cruise_loop_exit ==
  /\ pc = "loop" /\ scenario = "sweep"
  /\ sweep.i = Len(Tm)
  /\ pc' = "done"
  /\ ret' = Returned("Turbofan.py", <<>>, <<>>, None)
  /\ UNCHANGED <<scenario, sweep, thr, fleet, ac, nac, nfev, loc>>

\* caller t runs line 130 of unitary_thrust: the flight condition of the
\* TF_model of the nacelle becomes its own
thread_set_flight(t) ==
  /\ pc = "threads" /\ scenario = "parallel"
  /\ thr[t].pc = "set_flight"
  /\ nac' = set_flight(nac, thr[t].flight[1], thr[t].flight[2])
  /\ thr' = [thr EXCEPT ![t].pc = "off_design"]
  /\ UNCHANGED <<scenario, sweep, fleet, ac, pc, nfev, loc, ret>>

\* caller t runs lines 131-139 of unitary_thrust: off_design solves at the
\* flight condition the TF_model holds now, and the call returns
thread_off_design(t) ==
  /\ pc = "threads" /\ scenario = "parallel"
  /\ thr[t].pc = "off_design"
  /\ \E o \in off_design(tf_T4(nac, "MTO", 100), None) :
       thr' = [thr EXCEPT ![t].pc = "done",
                          ![t].at = nac.flight,
                          ![t].ret = tf_unitary_thrust(nac, thr[t].flight[1], thr[t].flight[2],
                                                       "MTO", 100, 0, o).ret]
  /\ UNCHANGED <<scenario, sweep, fleet, ac, nac, pc, nfev, loc, ret>>

\* fleet_analysis, lines 308-318: a cell that some aircraft accepts is flown
\* by the first accepting aircraft of index; operation converges in fly_it
fleet_cell_direct ==
  /\ scenario = "fleet" /\ pc = "cell" /\ fleet.c < fleet.nc
  /\ LET npax == cell_npax(fleet.data, fleet.c)
         dist == cell_dist(fleet.data, fleet.r)
         ks   == accepting(fleet.self, fleet.index, npax, dist)
     IN  /\ ks # {}
         /\ LET i    == fleet.index[CHOOSE k \in ks : \A j \in ks : k <= j]
                a    == fleet.self.aircraft[i]
                capa == max_capacity(a, dist)
            IN  fleet' = next_cell(serve([fleet EXCEPT !.self = fly_it(@, i, cell_nflight(fleet), capa,
                                                                       npax, dist,
                                                                       fly_operation(a, npax, dist)),
                                                       !.npax = npax, !.dist = dist, !.capa = capa],
                                         i, "direct"))
  /\ UNCHANGED <<scenario, sweep, thr, ac, nac, pc, nfev, loc, ret>>

\* lines 319-333: no aircraft accepts the cell; the heaviest aircraft enters
\* the max-capacity loop when its capa flag is False, else the cell is
\* reported and left
fleet_cell_rejected ==
  /\ scenario = "fleet" /\ pc = "cell" /\ fleet.c < fleet.nc
  /\ LET npax     == cell_npax(fleet.data, fleet.c)
         dist     == cell_dist(fleet.data, fleet.r)
         last     == fleet.index[Len(fleet.index)]
         out_dict == is_in_plr(fleet.self.aircraft[last], npax, dist)
         w        == [fleet EXCEPT !.npax = npax, !.dist = dist]
     IN  /\ accepting(fleet.self, fleet.index, npax, dist) = {}
         /\ IF ~out_dict.capa
            THEN /\ fleet' = serve([w EXCEPT !.capa = max_capacity(fleet.self.aircraft[last], dist),
                                             !.nf = 0],
                                   last, "max capacity")
                 /\ pc' = "while"
            ELSE /\ fleet' = next_cell(serve(w, None, IF ~out_dict.dist THEN "range"
                                                      ELSE "not fly-able"))
                 /\ pc' = pc
  /\ UNCHANGED <<scenario, sweep, thr, ac, nac, nfev, loc, ret>>

\* lines 325-328: one turn of `while npax>0.40*capa`
fleet_while_turn ==
  /\ scenario = "fleet" /\ pc = "while"
  /\ fallback_continues(fleet.npax, fleet.capa)
  /\ fleet.nf < MaxFlights
  /\ LET last == fleet.index[Len(fleet.index)]
         a    == fleet.self.aircraft[last]
     IN  fleet' = [fleet EXCEPT !.self = fly_it(@, last, cell_nflight(fleet), fleet.capa, fleet.capa,
                                                fleet.dist, fly_operation(a, fleet.capa, fleet.dist)),
                                !.npax = @ - fleet.capa,
                                !.nf = @ + 1]
  /\ UNCHANGED <<scenario, sweep, thr, ac, nac, pc, nfev, loc, ret>>

\* lines 325 and 329: the condition of the loop is False
fleet_while_exit ==
  /\ scenario = "fleet" /\ pc = "while"
  /\ ~fallback_continues(fleet.npax, fleet.capa)
  /\ fleet' = next_cell(fleet)
  /\ pc' = "cell"
  /\ UNCHANGED <<scenario, sweep, thr, ac, nac, nfev, loc, ret>>

\* line 296: fsolve returns ier # 1 in the operation call of fly_it, and the
\* exception leaves fleet_analysis
fleet_operation_raise(ier) ==
  /\ scenario = "fleet"
  /\ \/ /\ pc = "cell" /\ fleet.c < fleet.nc
        /\ accepting(fleet.self, fleet.index, cell_npax(fleet.data, fleet.c),
                     cell_dist(fleet.data, fleet.r)) # {}
     \/ /\ pc = "while"
        /\ fallback_continues(fleet.npax, fleet.capa)
        /\ fleet.nf < MaxFlights
  /\ pc' = "raised"
  /\ ret' = raise_if_not_converged("operation",
                                   IF pc = "cell"
                                   THEN <<cell_npax(fleet.data, fleet.c), cell_dist(fleet.data, fleet.r)>>
                                   ELSE <<fleet.capa, fleet.dist>>,
                                   <<Fsolve(ier)>>, None)
  /\ UNCHANGED <<scenario, sweep, thr, fleet, ac, nac, nfev, loc>>

\* lines 335-343: after the last cell the totals are returned
fleet_analysis_return ==
  /\ scenario = "fleet" /\ pc = "cell" /\ fleet.c = fleet.nc
  /\ pc' = "done"
  /\ ret' = Returned("fleet_analysis", <<>>, <<>>, fleet_totals(fleet.self))
  /\ UNCHANGED <<scenario, sweep, thr, fleet, ac, nac, nfev, loc>>

\* what fsolve may hand back: an estimate with its flag
FsolveOutcomes(X) == {[x |-> x, ier |-> ier] : x \in X, ier \in {1} \cup IerFailed}

\* the solves of one unitary_sc_2 call: a solve that fails ends the call, and
\* the solves after it are placeholders that never run
Sc2Outcomes ==
  LET Ok(X)     == {o \in FsolveOutcomes(X) : o.ier = 1}
      Failed(X) == {o \in FsolveOutcomes(X) : o.ier # 1}
      skip(X)   == CHOOSE o \in Ok(X) : TRUE
  IN  {<<i, skip(ThtlChoices), skip(FlowChoices)>> : i \in Failed(FlowChoices)}
      \cup {<<i, o, skip(FlowChoices)>> : i \in Ok(FlowChoices), o \in Failed(ThtlChoices)}
      \cup (Ok(FlowChoices) \X Ok(ThtlChoices) \X FsolveOutcomes(FlowChoices))

Next ==
  \/ \E kr_arg \in KrChoices, mpax_arg \in MpaxChoices : design_aircraft_call(kr_arg, mpax_arg)
  \/ fsolve_eval_design
  \/ design_aircraft_return
  \/ \E ier \in IerFailed : design_aircraft_raise(ier)
  \/ \E n_pax \in OpPaxChoices, range \in OpRangeChoices : operation_return(n_pax, range)
  \/ \E n_pax \in OpPaxChoices, range \in OpRangeChoices, ier \in IerFailed :
       operation_raise(n_pax, range, ier)
  \/ \E c \in MissionChoices, np \in BOOLEAN : mission_call(c[1], c[2], np)
  \/ \E altp \in AltpChoices : atmosphere_call(altp)
  \/ max_capacity_call
  \/ max_range_call
  \/ round_trip_call
  \/ is_in_plr_call
  \/ \E f \in FlightChoices, rating \in RatingChoices, o \in FsolveOutcomes(FlowChoices) :
       ef_unitary_thrust_call(f, rating, 100, o.x, o.ier)
  \/ \E f \in FlightChoices, rating \in RatingChoices, Pw \in PwChoices :
       ef_unitary_sc_return(f, rating, Pw)
  \/ \E f \in FlightChoices, rating \in RatingChoices, thrust \in ThrustChoices,
        q0 \in FlowChoices, Pw \in PwChoices, ier \in IerFailed :
       ef_unitary_sc_raise(f, rating, thrust, q0, Pw, ier)
  \/ \E f \in FlightChoices, rating \in RatingChoices, thrust \in ThrustChoices,
        o \in Sc2Outcomes :
       ef_unitary_sc_2_call(f, rating, thrust, o[1], o[2], o[3])
  \/ tf_eval_geometry_call
  \/ \E f \in FlightChoices, rating \in RatingChoices : tf_unitary_thrust_call(f, rating, 100)
  \/ \E f \in FlightChoices, rating \in RatingChoices, thrust \in ThrustChoices :
       tf_unitary_sc_call(f, rating, thrust)
  \/ cruise_loop_enter
  \/ cruise_loop_step
  \/ cruise_loop_exit
  \/ \E t \in Threads : thread_set_flight(t)
  \/ \E t \in Threads : thread_off_design(t)
  \/ fleet_cell_direct
  \/ fleet_cell_rejected
  \/ fleet_while_turn
  \/ fleet_while_exit
  \/ \E ier \in IerFailed : fleet_operation_raise(ier)
  \/ fleet_analysis_return

Spec == Init /\ [][Next]_vars

----------------------------------------------------------------------------
\* Properties

\* the call sites that solve with fsolve
RootFindingOps ==
  {"design_aircraft", "operation", "ef.unitary_thrust", "ef.unitary_sc", "ef.unitary_sc_2"}

FsolveFailed(rt) == \E i \in DOMAIN rt.solves : rt.solves[i].ier # 1

\* C1: at each of the five root-finding call sites a call whose fsolve
\* reported a flag other than 1 raises and hands back no value, and a call
\* that returned had flag 1 from every fsolve it ran
C1_RaisesUnlessConverged ==
  ret.op \in RootFindingOps =>
    /\ FsolveFailed(ret) => ret.status = "raised" /\ ret.value = None
    /\ ret.status = "returned" =>
         ret.solves # <<>> /\ \A i \in DOMAIN ret.solves : ret.solves[i].ier = 1

\* unitary_sc_2 raised because its own fsolve ended with flag 2 after the
\* inner unitary_thrust had converged
C1_Witness ==
  /\ ret.op = "ef.unitary_sc_2"
  /\ ret.status = "raised"
  /\ ret.solves = <<Fsolve(1), Fsolve(2)>>

\* C2: mission(tow, fuel_mission) with fuel_mission >= tow raises; it hands
\* back no range (no logarithm of a ratio that is not positive, no clamped
\* value)
C2_MissionRejectsFuelAboveTow ==
  (ret.op = "mission" /\ ret.args[2] >= ret.args[1]) =>
    ret.status = "raised" /\ ret.err.class \notin {"ZeroDivisionError"}

OffDesignFailed(rt) == \E i \in DOMAIN rt.solves : ~rt.solves[i].success

TurbofanOps == {"tf.eval_geometry", "tf.unitary_thrust", "tf.unitary_sc"}

\* C3: a method of Exergetic_tf_nacelle whose off_design solve did not
\* succeed raises, and reference_thrust never holds the thrust of a failed
\* solve
C3_FailedOffDesignNotUsed ==
  /\ (ret.op \in TurbofanOps /\ OffDesignFailed(ret)) => ret.status = "raised"
  /\ scenario = "turbofan" => nac.reference_thrust # LastIterate.Fnet

\* C4: the error of a failed fsolve is of a class of its own (not the class
\* of the altitude error of atmosphere nor of any other error), the error of
\* design_aircraft differs from the error the other solves raise, and the
\* error carries the inputs or the last iterate besides its message
C4_ConvergenceErrorDistinct ==
  (ret.op \in RootFindingOps /\ ret.status = "raised" /\ FsolveFailed(ret)) =>
    /\ ret.err.class # AltitudeError.class
    /\ ret.op = "design_aircraft" =>
         ret.err # raise_if_not_converged("operation", <<>>, <<Fsolve(2)>>, None).err
    /\ Len(ret.err.args) > 1

MassFields(a) == <<a.mtow, a.fuel_mission, a.fuel_reserve, a.ldw, a.payload, a.owe>>

EnvelopeFields(a) ==
  <<a.payload_max, a.range_pl_max, a.payload_fuel_max, a.range_fuel_max, a.range_no_pl>>

\* C5: on a constructed aircraft, a step that leaves design_aircraft inside
\* its solve, or ends it with an exception, writes none of the mass fields
\* and none of the envelope fields
C5_FieldsWrittenAfterSolve ==
  [][(/\ ret'.op = "design_aircraft" /\ ret'.status \in {"running", "raised"}
      /\ pc' \in {"fsolve", "idle"})
       => /\ MassFields(ac') = MassFields(ac)
          /\ EnvelopeFields(ac') = EnvelopeFields(ac)]_vars

DesignReturned == ret.op = "design_aircraft" /\ ret.status = "returned"

\* C6: when design_aircraft has returned, the fields hold the root fsolve
\* returned: owe closes the mass breakdown, the reserve is kr times the
\* mission fuel, and structure and mission reproduce owe and the design
\* range within the tolerance
C6_StateIsConvergedRoot ==
  DesignReturned =>
    /\ <<ac.mtow, ac.fuel_mission>> = loc.x
    /\ ac.owe = ac.mtow - ac.payload - ac.fuel_mission - ac.fuel_reserve
    /\ ac.fuel_reserve = (ac.kr * ac.fuel_mission) \div 100
    /\ Abs(structure(ac, ac.mtow) - ac.owe) <= Tol
    /\ IsNum(mission(ac, ac.mtow, ac.fuel_mission, TRUE))
    /\ Abs(mission(ac, ac.mtow, ac.fuel_mission, TRUE) - ac.range) <= Tol

\* a constructed aircraft sized again with kr = 0.10
C6_Witness ==
  /\ DesignReturned
  /\ ret.args = <<10, None>>
  /\ ac.kr = 10
  /\ loc.x \in DesignRoots(ac)

\* C7: when design_aircraft has returned, the ranges of the envelope are
\* ordered 0 < range_pl_max < range_fuel_max < range_no_pl
C7_EnvelopeRangesOrdered ==
  DesignReturned =>
    /\ 0 < ac.range_pl_max
    /\ ac.range_pl_max < ac.range_fuel_max
    /\ ac.range_fuel_max < ac.range_no_pl

\* C8: when design_aircraft has returned, payload_max is 1.2 times and
\* payload_fuel_max 0.4 times the design payload, and
\* payload_max >= payload_fuel_max >= 0
C8_PayloadCornersOrdered ==
  DesignReturned =>
    /\ ac.payload_max = (ac.payload * 120) \div 100
    /\ ac.payload_fuel_max = (ac.payload * 40) \div 100
    /\ ac.payload_max >= ac.payload_fuel_max
    /\ ac.payload_fuel_max >= 0

\* the 100-seat aircraft of 5556 km sized with 100 kg per passenger
C8_Witness ==
  /\ DesignReturned
  /\ ac.npax = 100 /\ ac.mpax = 100 /\ ac.range = 5556
  /\ ac.payload_max = 12000
  /\ ac.payload_fuel_max = 4000

\* rounding of one division by 1 + kr and one multiplication by it, in kg
Round == 2

\* C9: when design_aircraft has returned, each corner of the envelope closes
\* the mass breakdown: mtow = owe + payload + (1 + kr) fuel at the
\* maximum-payload and at the maximum-fuel corner, the take-off weight of the
\* zero-payload corner is owe + (1 + kr) fuel_max, and it does not exceed mtow
C9_CornerMassClosure ==
  DesignReturned =>
    LET reserve(f) == (f * (100 + ac.kr)) \div 100
    IN  /\ Abs(ac.mtow - (ac.owe + ac.payload_max + reserve(loc.fuel))) <= Round
        /\ Abs(ac.mtow - (ac.owe + ac.payload_fuel_max + reserve(loc.fuel_max))) <= Round
        /\ loc.tow = ac.owe + reserve(loc.fuel_max)
        /\ loc.tow <= ac.mtow

\* the short-range aircraft, whose maximum-payload corner has negative fuel
C9_Witness ==
  /\ DesignReturned
  /\ ac.range = 1000
  /\ loc.fuel < 0
  /\ loc.fuel_max > 0
  /\ loc.tow < ac.mtow

\* C10: when design_aircraft has returned (npax and range positive), mtow is
\* positive, 0 < fuel_mission < mtow, ldw > owe and
\* ldw - owe = payload + fuel_reserve
C10_MassesPhysical ==
  DesignReturned =>
    /\ ac.npax > 0 /\ ac.range > 0
    /\ ac.mtow > 0
    /\ 0 < ac.fuel_mission /\ ac.fuel_mission < ac.mtow
    /\ ac.ldw > ac.owe
    /\ ac.ldw - ac.owe = ac.payload + ac.fuel_reserve

\* the 150-seat aircraft of 5556 km as its constructor leaves it
C10_Witness ==
  /\ DesignReturned
  /\ ret.args = <<None, None>>
  /\ ac.npax = 150 /\ ac.range = 5556 /\ ac.kr = kr /\ ac.mpax = mpax
  /\ ac.payload = 19500
  /\ ac.fuel_mission > 10000

\* C11: in the cruise loop the first off_design call is seeded with the magic
\* guess, and every later call with p['sol'] of the latest earlier call of
\* the loop that succeeded
C11_SweepSeededFromMagicGuess ==
  scenario = "sweep" /\ pc = "loop" /\ sweep.i >= 1 =>
    /\ sweep.i = 1 => sweep.seed = magic_guess
    /\ sweep.i > 1 /\ sweep.prev_ok # NoSol => sweep.seed = sweep.prev_ok

\* C12: two invocations of unitary_thrust at different flight points give
\* under every interleaving what they give one after the other: each one is
\* solved at the flight condition it was called with
C12_InvocationsIndependent ==
  scenario = "parallel" =>
    \A t \in Threads : thr[t].ret.status = "returned" => thr[t].at = thr[t].flight

\* C13: a unitary_thrust call of the electric fan that returns hands back the
\* thrust q0*(Vjet - Vair) of the flow q0 of its fsolve, with Vjet from the
\* energy equation at the shaft power, and that shaft power as pw
C13_ReturnsThrustAndShaftPower ==
  ret.op = "ef.unitary_thrust" /\ ret.status = "returned" =>
    LET PwShaft == ef_shaft_power(nac, ret.args[3], ret.args[4], ret.args[5])
        Vair    == (ret.args[2] * sound_speed(ret.args[1])) \div 100
    IN  /\ ret.value.fn = ef_thrust(nac, loc.x[1], PwShaft, Vair).eFn
        /\ ret.value.pw = PwShaft

\* C15: atmosphere raises the altitude error above 50 km, and from the ground
\* to 50 km, both ends and the layer boundaries included, returns the
\* ambient data of the layer that holds the altitude
C15_AtmosphereFromGroundTo50km ==
  ret.op = "atmosphere" /\ ret.status # "running" =>
    LET altp == ret.args[1]
    IN  IF Z[Len(Z)] < altp
        THEN ret.status = "raised" /\ ret.err = AltitudeError
        ELSE 0 <= altp =>
               /\ ret.status = "returned"
               /\ ret.value.j + 2 <= Len(Z)
               /\ Z[ret.value.j + 1] <= altp /\ altp <= Z[ret.value.j + 2]

\* C14: a unitary_sc call of the electric fan that returns hands back a
\* shaft power pw that, with the flow of its fsolve, reproduces the requested
\* thrust to FnTol, a flow that the nozzle passes to Tol, and sec = pw/thrust
\* to the same tolerance
C14_PowerReproducesThrust ==
  ret.op = "ef.unitary_sc" /\ ret.status = "returned" =>
    LET pamb   == ret.args[1]
        thrust == ret.args[5]
        Vair   == (ret.args[3] * sound_speed(ret.args[2])) \div 100
        Ttot   == total_temperature(ret.args[2], ret.args[3] * 100)
        q0     == loc.x[1]
        pw     == ret.value.pw
    IN  /\ Abs((q0 * (ef_thrust(nac, q0, pw, Vair).Vjet - Vair)) \div 100 - thrust) <= FnTol
        /\ Abs(nozzle_flow(nac, q0, pw, pamb, Ttot, Vair) - q0) <= Tol
        /\ Abs(ret.value.sec - pw \div thrust) <= 1

\* a returned unitary_sc call whose recomputed thrust is not exactly the
\* requested one
C14_Witness ==
  /\ ret.op = "ef.unitary_sc" /\ ret.status = "returned"
  /\ ret.value.pw # ret.value.sec * ret.args[5]
  /\ ef_thrust(nac, loc.x[1], ret.value.pw,
               (ret.args[3] * sound_speed(ret.args[2])) \div 100).eFn # ret.args[5]

\* the aircraft of the lookup script came out of its constructor sized
Sized == scenario = "lookup" /\ pc = "idle"

\* c is y/m floored to a whole number
FloorOf(c, y, m) == c * m <= y /\ y < (c + 1) * m

\* c is the payload at x on the segment (x1, y1)-(x2, y2), x1 < x2, over m,
\* floored to a whole number
FloorOnSegment(c, m, x1, y1, x2, y2, x) ==
  LET N == y1 * (x2 - x1) + (y2 - y1) * (x - x1)
  IN  c * m * (x2 - x1) <= N /\ N < (c + 1) * m * (x2 - x1)

\* C16: max_capacity(range) is the payload of the envelope at the range,
\* interpolated between its corners and floored to whole passengers; it
\* takes the corner payloads at the corner ranges and never grows with the
\* range
C16_MaxCapacityInterpolates ==
  /\ ret.op = "max_capacity" /\ ret.status = "returned" =>
       LET range == ret.args[1]
           c     == ret.value
       IN  IF range <= ac.range_pl_max
           THEN FloorOf(c, ac.payload_max, ac.mpax)
           ELSE IF range <= ac.range_fuel_max
           THEN FloorOnSegment(c, ac.mpax, ac.range_pl_max, ac.payload_max,
                               ac.range_fuel_max, ac.payload_fuel_max, range)
           ELSE IF range <= ac.range_no_pl
           THEN FloorOnSegment(c, ac.mpax, ac.range_fuel_max, ac.payload_fuel_max,
                               ac.range_no_pl, 0, range)
           ELSE c = 0
  /\ Sized =>
       /\ FloorOf(max_capacity(ac, ac.range_pl_max), ac.payload_max, ac.mpax)
       /\ FloorOf(max_capacity(ac, ac.range_fuel_max), ac.payload_fuel_max, ac.mpax)
       /\ max_capacity(ac, ac.range_no_pl) = 0
       /\ \A r1 \in EnvelopeRanges(ac), r2 \in EnvelopeRanges(ac) :
            r1 <= r2 => max_capacity(ac, r1) >= max_capacity(ac, r2)

\* a lookup inside the segment between the maximum-payload and the
\* maximum-fuel corner, with a capacity strictly between those of the corners
C16_Witness ==
  /\ ret.op = "max_capacity" /\ ret.status = "returned"
  /\ ac.range_pl_max < ret.args[1] /\ ret.args[1] < ac.range_fuel_max
  /\ ret.value < ac.payload_max \div ac.mpax
  /\ ret.value > ac.payload_fuel_max \div ac.mpax

\* C17: on a sized aircraft max_capacity returns, for every range, a
\* capacity from 0 to floor(payload_max/mpax) and max_range, for every
\* number of passengers, a range from 0 to range_no_pl; neither raises
C17_EnvelopeLookupsInBounds ==
  /\ ret.op \in {"max_capacity", "max_range"} => ret.status = "returned"
  /\ ret.op = "max_capacity" /\ ret.status = "returned" =>
       0 <= ret.value /\ ret.value * ac.mpax <= ac.payload_max
  /\ ret.op = "max_range" /\ ret.status = "returned" =>
       0 <= ret.value /\ ret.value <= ac.range_no_pl

\* the payload y is not above the segment (x1, y1)-(x2, y2), x1 < x2, at x
UnderSegment(y, x1, y1, x2, y2, x) ==
  y * (x2 - x1) <= y1 * (x2 - x1) + (y2 - y1) * (x - x1)

\* the mission lies inside the payload-range envelope of the aircraft
InEnvelope(a, payload, range) ==
  /\ payload <= a.payload_max
  /\ range <= a.range_no_pl
  /\ a.range_pl_max < range /\ range <= a.range_fuel_max =>
       UnderSegment(payload, a.range_pl_max, a.payload_max,
                    a.range_fuel_max, a.payload_fuel_max, range)
  /\ a.range_fuel_max < range =>
       UnderSegment(payload, a.range_fuel_max, a.payload_fuel_max, a.range_no_pl, 0, range)

\* C18: is_in_plr answers capa, dist and both all True only for a mission
\* inside the payload-range envelope that max_capacity interpolates
C18_PossibleOnlyInsideEnvelope ==
  ret.op = "is_in_plr" /\ ret.status = "returned"
  /\ ret.value.capa /\ ret.value.dist /\ ret.value.both =>
    InEnvelope(ac, ret.args[1] * ac.mpax, ret.args[2])

\* C19: the max-capacity loop of fleet_analysis ends after finitely many
\* flights for every capacity max_capacity returns.  capa does not change
\* inside the loop and the loop runs while npax > 0.40*capa, so it ends
\* exactly when every turn leaves fewer passengers to carry than the turn
\* before.
C19_FallbackLoopEnds ==
  [][scenario = "fleet" /\ pc = "while" /\ pc' = "while" /\ fleet'.nf = fleet.nf + 1 =>
       fleet'.npax < fleet.npax]_vars

\* the aircraft of the fleet fl for which is_in_plr returns capa, dist and
\* both all True at the demand cell (col, row) of data
AcceptedBy(fl, data, col, row) ==
  {j \in 1..Len(fl.aircraft) :
     LET out_dict == is_in_plr(fl.aircraft[j], cell_npax(data, col), cell_dist(data, row))
     IN  out_dict.capa /\ out_dict.dist /\ out_dict.both}

\* the aircraft whose accumulators differ between the fleets fl and fl2
Flown(fl, fl2) ==
  {j \in 1..Len(fl.aircraft) :
     \E k \in 1..8 : Accumulators(fl2)[k][j] # Accumulators(fl)[k][j]}

\* C20: fleet_analysis gives each demand cell to one aircraft only.  When
\* some aircraft accepts the cell (is_in_plr returns capa, dist and both all
\* True) it is flown once, nflight times, by the accepting aircraft of
\* smallest MTOW, so a larger aircraft flies it only when every aircraft of
\* smaller MTOW rejects it; the max-capacity loop runs only when every
\* aircraft rejects the cell, and then on the aircraft of largest MTOW.
C20_CellGoesToSmallestAccepting ==
  [][scenario = "fleet" /\ pc \in {"cell", "while"} /\ fleet' # fleet =>
       LET fl      == fleet.self
           all     == 1..Len(fl.aircraft)
           s       == fleet'.served[Len(fleet'.served)]
           ok      == AcceptedBy(fl, fleet.data, s.c, s.r)
           nflight == fleet.data.matrix[s.c + 1][s.r + 1]
       IN  /\ Flown(fl, fleet'.self) \subseteq {s.by}
           /\ ok # {} =>
                /\ s.how = "direct" /\ s.by \in ok
                /\ \A j \in ok : fl.aircraft[s.by].mtow <= fl.aircraft[j].mtow
                /\ \A j \in all : fl.aircraft[j].mtow < fl.aircraft[s.by].mtow => j \notin ok
                /\ fleet'.self.fleet_trip[s.by] = fl.fleet_trip[s.by] + nflight
           /\ s.how = "direct" => ok # {}
           /\ s.how = "max capacity" =>
                /\ ok = {}
                /\ \A j \in all : fl.aircraft[j].mtow <= fl.aircraft[s.by].mtow
           /\ s.how \in {"range", "not fly-able"} => fleet'.self = fl]_vars

\* fleet_analysis returned after a cell that two aircraft accept went to the
\* lighter one, a cell that the lighter aircraft rejects went to the heavier
\* one, and a cell that every aircraft rejects was flown at max capacity
C20_Witness ==
  /\ scenario = "fleet" /\ pc = "done" /\ ret.status = "returned"
  /\ LET fl    == fleet.self
         cells == {fleet.served[k] : k \in 1..Len(fleet.served)}
     IN  /\ \E s \in cells :
              /\ s.how = "direct"
              /\ \E j \in AcceptedBy(fl, fleet.data, s.c, s.r) :
                   fl.aircraft[j].mtow > fl.aircraft[s.by].mtow
         /\ \E s \in cells :
              /\ s.how = "direct"
              /\ \E j \in 1..Len(fl.aircraft) :
                   /\ fl.aircraft[j].mtow < fl.aircraft[s.by].mtow
                   /\ j \notin AcceptedBy(fl, fleet.data, s.c, s.r)
         /\ \E s \in cells :
              /\ s.how = "max capacity"
              /\ fleet.data.matrix[s.c + 1][s.r + 1] > 0
              /\ fl.fleet_capa[s.by] > 0

\* C21: after fleet_analysis no aircraft has more passengers booked than
\* seats offered, fleet_npax[i] <= fleet_capa[i]: every flight fly_it
\* records carries at most max_capacity(dist) passengers.
C21_BookedWithinCapacity ==
  scenario = "fleet" /\ pc = "done" =>
    \A i \in 1..Len(fleet.self.aircraft) :
      fleet.self.fleet_npax[i] <= fleet.self.fleet_capa[i]

\* the fleet fl2 is the fleet fl with one call fly_it(i, nflight, capa, npax,
\* dist) recorded: the eight accumulators of aircraft i have grown by the
\* terms of lines 297-304 and nothing else differs
Recorded(fl, fl2, i, nflight, capa, npax, dist) ==
  LET a   == fl.aircraft[i]
      res == fly_operation(a, npax, dist)
      inc == <<nflight, npax * nflight, capa * nflight, dist * nflight, res[1] * nflight,
               res[2] * nflight, npax * dist * nflight,
               ((dist * npax * a.mpax) \div 1000) * nflight>>
  IN  /\ \A k \in 1..8 : \A j \in 1..Len(fl.aircraft) :
           Accumulators(fl2)[k][j] = Accumulators(fl)[k][j] + (IF j = i THEN inc[k] ELSE 0)
      /\ fl2.aircraft = fl.aircraft /\ fl2.network = fl.network

\* C22: in fleet_analysis a recorded flight adds to the eight accumulators
\* of the chosen aircraft, all eight together, and to no other entry; a
\* flight whose operation raises, a cell reported as not fly-able and every
\* other step leave the accumulators as they are.
C22_FlightWritesOneAircraft ==
  [][scenario = "fleet" =>
       LET s      == fleet'.served[Len(fleet'.served)]
           direct == pc = "cell" /\ Len(fleet'.served) > Len(fleet.served) /\ s.how = "direct"
           turn   == pc = "while" /\ pc' = "while" /\ fleet'.nf = fleet.nf + 1
           dist   == cell_dist(fleet.data, fleet.r)
       IN  /\ direct => Recorded(fleet.self, fleet'.self, s.by, cell_nflight(fleet), fleet'.capa,
                                 cell_npax(fleet.data, fleet.c), dist)
           /\ turn => Recorded(fleet.self, fleet'.self, s.by, cell_nflight(fleet), fleet.capa,
                               fleet.capa, dist)
           /\ ~direct /\ ~turn => fleet'.self = fleet.self
           /\ pc' = "raised" => fleet' = fleet]_vars

\* fleet_analysis returned after flights of both aircraft of a fleet and a
\* cell that was reported as not fly-able
C22_Witness ==
  /\ scenario = "fleet" /\ pc = "done"
  /\ Len(fleet.self.aircraft) = 2
  /\ \A i \in 1..2 : fleet.self.fleet_trip[i] > 0 /\ fleet.self.fleet_fuel[i] > 0
  /\ \E k \in 1..Len(fleet.served) : fleet.served[k].how \in {"range", "not fly-able"}

\* is_in_plr, lines 191-197: the constraints c1 (max payload), c2 (max
\* take-off weight), c3 (max fuel) and c4 (max range) of the call
PlrConstraints(a, npax, range) ==
  LET payload == npax * a.mpax
  IN  <<a.payload_max - payload,
        (payload - a.payload_fuel_max) * (a.range_pl_max - a.range_fuel_max)
          - (a.payload_max - a.payload_fuel_max) * (range - a.range_fuel_max),
        payload * (a.range_fuel_max - a.range_no_pl) - a.payload_max * (range - a.range_no_pl),
        a.range_no_pl - range>>

\* C23: is_in_plr returns capa, dist and both all True exactly when its four
\* constraints c1, c2, c3 and c4 are all >= 0, so a negative constraint
\* leaves at least one flag False.
C23_FlagsTrueIffConstraintsHold ==
  ret.op = "is_in_plr" /\ ret.status = "returned" =>
    LET c == PlrConstraints(ac, ret.args[1], ret.args[2])
    IN  (ret.value.capa /\ ret.value.dist /\ ret.value.both) <=> (\A k \in 1..4 : c[k] >= 0)

\* is_in_plr returned for a point above the maximum payload and beyond the
\* maximum range, where only the flag both is False
C23_Witness ==
  /\ ret.op = "is_in_plr" /\ ret.status = "returned"
  /\ LET c == PlrConstraints(ac, ret.args[1], ret.args[2])
     IN  c[1] < 0 /\ c[4] < 0
  /\ ret.value.capa /\ ret.value.dist /\ ~ret.value.both

\* C24: max_range and max_capacity are inverse on the boundary of the
\* envelope, in exact arithmetic: max_capacity(max_range(n)) = n for every
\* whole n with 0 <= n*mpax <= payload_max, and max_range(n) = 0 for every n
\* with n*mpax > payload_max.
C24_RangeAndCapacityInverse ==
  ret.op = "max_capacity(max_range)" /\ ret.status = "returned" =>
    IF ret.args[1] * ac.mpax <= ac.payload_max
    THEN ret.value.capacity = ret.args[1]
    ELSE ret.value.range = <<0, 1>>

\* the round trip returned for a passenger count whose range lies strictly
\* inside the last segment of the envelope and is not a whole number of km
C24_Witness ==
  /\ ret.op = "max_capacity(max_range)" /\ ret.status = "returned"
  /\ ret.args[1] > 0
  /\ ret.args[1] * ac.mpax < ac.payload_fuel_max
  /\ ret.value.range[2] > 1
  /\ ac.range_fuel_max * ret.value.range[2] < ret.value.range[1]
  /\ ret.value.range[1] < ac.range_no_pl * ret.value.range[2]

\* C25: operation(n_pax, range) leaves every field of the aircraft as it
\* was, whether it returns or raises; when it returns, the take-off weight
\* and the mission fuel close the mass breakdown on the owe of the aircraft,
\* tow - n_pax*mpax - (1+kr)*mission_fuel = owe, and fly the range,
\* mission(tow, mission_fuel) = range, within the tolerance of the solve.
C25_OperationKeepsAircraft ==
  [][ret'.op = "operation" /\ scenario = "operation" /\ pc = "idle" =>
       /\ ac' = ac
       /\ ret'.status \in {"returned", "raised"}
       /\ ret'.status = "returned" =>
            LET n_pax        == ret'.args[1]
                range        == ret'.args[2]
                mission_fuel == ret'.value[1]
                tow          == ret'.value[3]
            IN  /\ Abs(tow - n_pax * ac.mpax - mission_fuel - (ac.kr * mission_fuel) \div 100
                       - ac.owe) <= Tol
                /\ IsNum(mission(ac, tow, mission_fuel, TRUE))
                /\ Abs(mission(ac, tow, mission_fuel, TRUE) - range) <= Tol]_vars

\* operation returned a mission that burns fuel on a sized aircraft
C25_Witness ==
  /\ scenario = "operation" /\ pc = "idle"
  /\ ret.op = "operation" /\ ret.status = "returned"
  /\ ret.value[1] > 0 /\ ret.value[3] > ac.owe + ret.value[1]
  /\ IsNum(ac.owe) /\ ac.owe > 0

\* C26: the mission time operation returns is 1200 s plus the time to fly
\* the range at cruise speed, range / cruise_speed (here in units of 100 s,
\* with the range in km and the speed in cm/s, to the nearest unit).
C26_MissionTimeIsFlightTime ==
  scenario = "operation" /\ ret.op = "operation" /\ ret.status = "returned" =>
    Abs(ret.value[2] - ((20 * 60) \div 100 + (ret.args[2] * 1000) \div ac.cruise_speed)) <= 1

====
